---- MODULE Spec2Model ----
(***************************************************************************)
(* A model of mowa: startup and configuration (main.go, config.go), the    *)
(* storage subsystem (storage.go): the path resolver                       *)
(* validateAndResolvePath, the two storage routes and the file handlers,   *)
(* running against a POSIX-like filesystem with directories, regular       *)
(* files, file permissions and symbolic links, the storage notifications   *)
(* and the messages endpoint (messages.go).                                *)
(*                                                                         *)
(* Strings the code inspects character by character (paths) are sequences  *)
(* of one-character strings, so "/s/f" is <<"/", "s", "/", "f">>.          *)
(* Messages and file contents, which the code only copies, are TLA+        *)
(* strings.                                                                *)
(***************************************************************************)
EXTENDS Integers, Sequences, FiniteSets, TLC

VARIABLES
    configFile, \* what the -config flag names: the file main loads, if any
    appConfig,  \* the process-wide configuration (config.go: var appConfig)
    cwd,        \* the process's working directory, an absolute clean path
    getwdOk,    \* whether os.Getwd succeeds in this environment
    fs,         \* the filesystem: physical absolute path -> node
    pc,         \* "boot": main has not loaded the configuration yet;
                \* "exit": main ended with log.Fatalf; "idle": the server
                \* accepts requests, none in progress; "done": a response
                \* is ready
    req,        \* the request being answered
    res,        \* what the request's call of validateAndResolvePath returned
    resp,       \* the HTTP response of the request
    trace,      \* the operations the request performed, in order
    writes,     \* number of requests that changed the filesystem so far
    goroutines, \* the notification goroutines started and not yet finished
    notified,   \* what the notification goroutine that finished last logged
    saved       \* history: logical path, in its plainest spelling -> the
                \* content of the last save of it answered with success

vars == <<configFile, appConfig, cwd, getwdOk, fs, pc, req, res, resp, trace,
          writes, goroutines, notified, saved>>

----------------------------------------------------------------------------
(* Bounds of the model.                                                    *)

\* Longest logical path, in characters, the resolver is exercised on.
MaxLen == 4

\* Number of filesystem-changing requests explored in one behaviour.
MaxWrites == 1

\* Symbolic links followed by one path lookup before it fails with ELOOP.
MaxLinks == 2

----------------------------------------------------------------------------
(* Strings (package strings).                                              *)

Sep == "/"
Dot == "."

\* strings.HasPrefix(s, prefix)
HasPrefix(s, prefix) ==
    /\ Len(prefix) <= Len(s)
    /\ SubSeq(s, 1, Len(prefix)) = prefix

\* strings.Contains(s, substr)
Contains(s, substr) ==
    \E i \in 1..(Len(s) - Len(substr) + 1) :
        SubSeq(s, i, i + Len(substr) - 1) = substr

\* strings.TrimPrefix(s, prefix)
TrimPrefix(s, prefix) ==
    IF HasPrefix(s, prefix) THEN SubSeq(s, Len(prefix) + 1, Len(s)) ELSE s

----------------------------------------------------------------------------
(* Lexical path handling (package path/filepath, Unix).                    *)

\* The "/"-separated elements of a path, empty elements dropped.
RECURSIVE SplitFrom(_, _, _)
SplitFrom(s, i, cur) ==
    IF i > Len(s)
    THEN IF cur = <<>> THEN <<>> ELSE <<cur>>
    ELSE IF s[i] = Sep
         THEN (IF cur = <<>> THEN <<>> ELSE <<cur>>) \o SplitFrom(s, i + 1, <<>>)
         ELSE SplitFrom(s, i + 1, Append(cur, s[i]))

Elements(s) == SplitFrom(s, 1, <<>>)

\* strings.Join(elems, "/")
RECURSIVE JoinSep(_)
JoinSep(elems) ==
    IF elems = <<>> THEN <<>>
    ELSE IF Len(elems) = 1 THEN elems[1]
    ELSE elems[1] \o <<Sep>> \o JoinSep(Tail(elems))

DotDot == <<Dot, Dot>>

\* filepath.IsAbs(path)
IsAbs(path) == HasPrefix(path, <<Sep>>)

\* The element stack Clean keeps: "." elements are dropped, ".." removes the
\* element before it, is dropped at the root of a rooted path, and is kept
\* at the start of a relative one.
RECURSIVE CleanStack(_, _, _)
CleanStack(elems, stack, rooted) ==
    IF elems = <<>> THEN stack
    ELSE LET e == Head(elems)
             rest == Tail(elems)
         IN  IF e = <<Dot>> THEN CleanStack(rest, stack, rooted)
             ELSE IF e = DotDot
                  THEN IF stack # <<>> /\ stack[Len(stack)] # DotDot
                       THEN CleanStack(rest, SubSeq(stack, 1, Len(stack) - 1), rooted)
                       ELSE IF rooted
                            THEN CleanStack(rest, stack, rooted)
                            ELSE CleanStack(rest, Append(stack, e), rooted)
                  ELSE CleanStack(rest, Append(stack, e), rooted)

\* filepath.Clean(path): the shortest equivalent path by lexical processing.
Clean(path) ==
    LET rooted == IsAbs(path)
        stack == CleanStack(Elements(path), <<>>, rooted)
    IN  IF rooted THEN <<Sep>> \o JoinSep(stack)
        ELSE IF stack = <<>> THEN <<Dot>>
        ELSE JoinSep(stack)

\* A plausible slip: the directory and the path glued together as strings,
\* the path's leading separator trimmed, instead of joined as elements.
JoinConcat(dir, path) == dir \o TrimPrefix(path, <<Sep>>)

\* A plausible slip: the arguments joined by "/" and not cleaned.
JoinNoClean(dir, path) == dir \o <<Sep>> \o path

\* filepath.Join(dir, path): the non-empty arguments joined by "/", cleaned.
Join(dir, path) ==
    IF dir = <<>>
    THEN IF path = <<>> THEN <<>> ELSE Clean(path)
    ELSE Clean(dir \o <<Sep>> \o path)

\* filepath.Dir(path) of a clean absolute path: all but the last element.
Dir(path) ==
    LET elems == Elements(path)
    IN  IF elems = <<>> THEN <<Sep>>
        ELSE <<Sep>> \o JoinSep(SubSeq(elems, 1, Len(elems) - 1))

\* filepath.Abs(path): an absolute path is cleaned; a relative one is joined
\* to the working directory, which os.Getwd may fail to report.
Abs(path, wd, wdOk) ==
    IF IsAbs(path) THEN [ok |-> TRUE, path |-> Clean(path)]
    ELSE IF ~wdOk THEN [ok |-> FALSE, path |-> <<>>]
    ELSE [ok |-> TRUE, path |-> Join(wd, path)]

----------------------------------------------------------------------------
(* The resolver (storage.go).                                              *)

MsgInvalidPath == "invalid path: contains forbidden characters or directory traversal"
MsgOutside == "path is outside of storage directory"
MsgInternal == "internal server error"
MsgPathRequired == "path is required"
MsgNotFound == "file not found"
MsgReadFailed == "failed to read file"
MsgSaveFailed == "failed to save file"
MsgSaved == "File saved successfully"
MsgMethodNotAllowed == "method not allowed"
MsgMethodNotAllowedURL ==
    "method not allowed - use POST /api/storage with JSON payload for file creation"

\* A plausible slip: only the leading separator is checked.
isValidPathNoTraversalCheck(path) == HasPrefix(path, <<Sep>>)

\* isValidPath(path)
isValidPath(path) ==
    IF Contains(path, DotDot) THEN FALSE
    ELSE IF ~HasPrefix(path, <<Sep>>) THEN FALSE
    ELSE TRUE

Rejection(kind, code, message) ==
    [kind |-> kind, path |-> <<>>, code |-> code, message |-> message]

\* A plausible slip: the containment check made against the configured
\* directory as written instead of its absolute form.
validateAndResolvePathRawPrefix(path, dir, wd, wdOk) ==
    IF ~isValidPath(path)
    THEN Rejection("InvalidPath", 400, MsgInvalidPath)
    ELSE LET fullPath == Join(dir, path)
             storageDir == Abs(dir, wd, wdOk)
             absFullPath == Abs(fullPath, wd, wdOk)
         IN  IF ~storageDir.ok
             THEN Rejection("ResolutionFailure", 500, MsgInternal)
             ELSE IF ~absFullPath.ok
             THEN Rejection("ResolutionFailure", 500, MsgInternal)
             ELSE IF ~HasPrefix(absFullPath.path, dir)
             THEN Rejection("OutsideRoot", 400, MsgOutside)
             ELSE [kind |-> "ok", path |-> absFullPath.path,
                   code |-> 200, message |-> ""]

\* validateAndResolvePath(path), for storage directory dir
validateAndResolvePath(path, dir, wd, wdOk) ==
    IF ~isValidPath(path)
    THEN Rejection("InvalidPath", 400, MsgInvalidPath)
    ELSE LET fullPath == Join(dir, path)
             storageDir == Abs(dir, wd, wdOk)
             absFullPath == Abs(fullPath, wd, wdOk)
         IN  IF ~storageDir.ok
             THEN Rejection("ResolutionFailure", 500, MsgInternal)
             ELSE IF ~absFullPath.ok
             THEN Rejection("ResolutionFailure", 500, MsgInternal)
             ELSE IF ~HasPrefix(absFullPath.path, storageDir.path)
             THEN Rejection("OutsideRoot", 400, MsgOutside)
             ELSE [kind |-> "ok", path |-> absFullPath.path,
                   code |-> 200, message |-> ""]

----------------------------------------------------------------------------
(* The filesystem the handlers' os.* calls act on.                         *)
(* fs maps the physical absolute path of every existing node to the node;  *)
(* the parent of every node but "/" is a directory of fs.                  *)

DirNode == [kind |-> "dir", content |-> "", mode |-> "rwx", target |-> <<>>]
FileNode(content, mode) ==
    [kind |-> "file", content |-> content, mode |-> mode, target |-> <<>>]
LinkNode(target) ==
    [kind |-> "link", content |-> "", mode |-> "rwx", target |-> target]

RootPath == <<Sep>>

Child(dir, elem) ==
    IF dir = RootPath THEN dir \o elem ELSE dir \o <<Sep>> \o elem

\* The kernel's path walk from directory cur over elems, following symbolic
\* links (at most `links` of them).  err is "ok" with the physical path of
\* the node reached, or the errno; on ENOENT, phys is the path that does not
\* exist and last tells whether only the final element is missing.
RECURSIVE Walk(_, _, _, _)
Walk(f, cur, elems, links) ==
    IF elems = <<>> THEN [err |-> "ok", phys |-> cur, last |-> FALSE]
    ELSE LET next == Child(cur, Head(elems))
             rest == Tail(elems)
         IN  IF next \notin DOMAIN f
             THEN [err |-> "ENOENT", phys |-> next, last |-> rest = <<>>]
             ELSE IF f[next].kind = "dir" THEN Walk(f, next, rest, links)
             ELSE IF f[next].kind = "file"
                  THEN IF rest = <<>>
                       THEN [err |-> "ok", phys |-> next, last |-> FALSE]
                       ELSE [err |-> "ENOTDIR", phys |-> next, last |-> FALSE]
             ELSE IF links = 0
                  THEN [err |-> "ELOOP", phys |-> next, last |-> FALSE]
                  ELSE Walk(f, RootPath, Elements(f[next].target) \o rest, links - 1)

Lookup(f, path) == Walk(f, RootPath, Elements(path), MaxLinks)

\* os.Stat(path): follows symbolic links.
Stat(f, path) ==
    LET w == Lookup(f, path)
    IN  [err |-> w.err, isDir |-> w.err = "ok" /\ f[w.phys].kind = "dir"]

\* os.IsNotExist(err)
IsNotExist(err) == err = "ENOENT"

\* os.ReadFile(path)
ReadFile(f, path) ==
    LET w == Lookup(f, path)
    IN  IF w.err # "ok" THEN [err |-> w.err, content |-> ""]
        ELSE IF f[w.phys].kind = "dir" THEN [err |-> "EISDIR", content |-> ""]
        ELSE IF f[w.phys].mode = "none" THEN [err |-> "EACCES", content |-> ""]
        ELSE [err |-> "ok", content |-> f[w.phys].content]

\* f with node n at physical path p
Put(f, p, n) == [q \in DOMAIN f \cup {p} |-> IF q = p THEN n ELSE f[q]]

\* os.Mkdir(path): the parent must resolve to a directory and the name must
\* not exist (a symbolic link at the name counts as existing).
Mkdir(f, path) ==
    LET elems == Elements(path)
        w == Lookup(f, Dir(path))
    IN  IF elems = <<>> THEN [err |-> "EEXIST", fs |-> f]
        ELSE IF w.err # "ok" THEN [err |-> w.err, fs |-> f]
        ELSE IF f[w.phys].kind # "dir" THEN [err |-> "ENOTDIR", fs |-> f]
        ELSE LET p == Child(w.phys, elems[Len(elems)])
             IN  IF p \in DOMAIN f THEN [err |-> "EEXIST", fs |-> f]
                 ELSE [err |-> "ok", fs |-> Put(f, p, DirNode)]

\* os.MkdirAll(path): nothing to do when path is a directory, ENOTDIR when it
\* is something else; otherwise the parent is made first and then path.
RECURSIVE MkdirAll(_, _)
MkdirAll(f, path) ==
    LET st == Stat(f, path)
    IN  IF st.err = "ok"
        THEN IF st.isDir THEN [err |-> "ok", fs |-> f]
             ELSE [err |-> "ENOTDIR", fs |-> f]
        ELSE LET up == IF Len(Elements(path)) > 1
                       THEN MkdirAll(f, Dir(path))
                       ELSE [err |-> "ok", fs |-> f]
             IN  IF up.err # "ok" THEN [err |-> up.err, fs |-> f]
                 ELSE LET mk == Mkdir(up.fs, path)
                      IN  IF mk.err # "ok" THEN [err |-> mk.err, fs |-> up.fs]
                          ELSE mk

\* A content longer than the space left on the disk.
TooBig == "big"

\* The write of os.WriteFile to the file it has opened, and thereby created
\* or truncated: all of the content, or, when the disk has no room for it,
\* the error ENOSPC with the file left truncated.
WriteOpened(f, phys, mode, content) ==
    IF content = TooBig
    THEN [err |-> "ENOSPC", fs |-> Put(f, phys, FileNode("", mode))]
    ELSE [err |-> "ok", fs |-> Put(f, phys, FileNode(content, mode))]

\* What os.WriteFile is not: a write that leaves the old content when it
\* fails, as a write to a temporary file and a rename would.
WriteFileAtomic(f, path, content) ==
    LET w == Lookup(f, path)
    IN  IF w.err = "ok"
        THEN IF f[w.phys].kind = "dir" THEN [err |-> "EISDIR", fs |-> f]
             ELSE IF f[w.phys].mode = "none" THEN [err |-> "EACCES", fs |-> f]
             ELSE IF content = TooBig THEN [err |-> "ENOSPC", fs |-> f]
             ELSE WriteOpened(f, w.phys, f[w.phys].mode, content)
        ELSE IF w.err = "ENOENT" /\ w.last
             THEN IF content = TooBig THEN [err |-> "ENOSPC", fs |-> f]
                  ELSE WriteOpened(f, w.phys, "rw", content)
             ELSE [err |-> w.err, fs |-> f]

\* os.WriteFile(path, content, 0644): open with O_WRONLY|O_CREATE|O_TRUNC
\* (following symbolic links, creating the file a dangling link names) and
\* write the content.
WriteFile(f, path, content) ==
    LET w == Lookup(f, path)
    IN  IF w.err = "ok"
        THEN IF f[w.phys].kind = "dir" THEN [err |-> "EISDIR", fs |-> f]
             ELSE IF f[w.phys].mode = "none" THEN [err |-> "EACCES", fs |-> f]
             ELSE WriteOpened(f, w.phys, f[w.phys].mode, content)
        ELSE IF w.err = "ENOENT" /\ w.last
             THEN WriteOpened(f, w.phys, "rw", content)
             ELSE [err |-> w.err, fs |-> f]

----------------------------------------------------------------------------
(* Responses.                                                              *)

\* c.JSON(status, StorageResponse{Success, Content, Error})
JSONResponse(status, success, content, error) ==
    [status |-> status, body |-> "StorageResponse", success |-> success,
     content |-> content, error |-> error]

\* An *echo.HTTPError returned by a handler: echo's error handler answers
\* with the code and the body {"message": message}.
HTTPError(code, message) ==
    [status |-> code, body |-> "HTTPError", success |-> FALSE,
     content |-> "", error |-> message]

\* c.String(status, content)
StringResponse(status, content) ==
    [status |-> status, body |-> "text", success |-> TRUE,
     content |-> content, error |-> ""]

NoRes == [kind |-> "none", path |-> <<>>, code |-> 0, message |-> ""]
NoResp == [status |-> 0, body |-> "none", success |-> FALSE,
           content |-> "", error |-> ""]
NoReq == [route |-> "none", method |-> "", path |-> <<>>, content |-> "",
          bodyOk |-> TRUE]

\* What a file handler did: its response, the filesystem it leaves and the
\* os calls it made.
Done(response, f, ops) == [resp |-> response, fs |-> f, ops |-> ops]

----------------------------------------------------------------------------
(* The file handlers (storage.go).                                         *)

\* A plausible slip (the handler's earlier revision): a failed read reported
\* as "file not found".
handleGetFileReadErrorNotFound(f, fullPath) ==
    IF IsNotExist(Stat(f, fullPath).err)
    THEN Done(HTTPError(404, MsgNotFound), f, <<"stat">>)
    ELSE LET rd == ReadFile(f, fullPath)
         IN  IF rd.err # "ok"
             THEN Done(JSONResponse(404, FALSE, "", MsgNotFound), f,
                       <<"stat", "read">>)
             ELSE Done(JSONResponse(200, TRUE, rd.content, ""), f,
                       <<"stat", "read">>)

\* handleGetFile(c, fullPath)
handleGetFile(f, fullPath) ==
    IF IsNotExist(Stat(f, fullPath).err)
    THEN Done(HTTPError(404, MsgNotFound), f, <<"stat">>)
    ELSE LET rd == ReadFile(f, fullPath)
         IN  IF rd.err # "ok"
             THEN Done(JSONResponse(500, FALSE, "", MsgReadFailed), f,
                       <<"stat", "read">>)
             ELSE Done(JSONResponse(200, TRUE, rd.content, ""), f,
                       <<"stat", "read">>)

\* A plausible slip: the error of os.ReadFile put into the response.
handleGetFileRawLeakingError(f, fullPath) ==
    IF IsNotExist(Stat(f, fullPath).err)
    THEN Done(HTTPError(404, MsgNotFound), f, <<"stat">>)
    ELSE LET rd == ReadFile(f, fullPath)
         IN  IF rd.err # "ok"
             THEN Done(HTTPError(500, rd.err), f, <<"stat", "read">>)
             ELSE Done(StringResponse(200, rd.content), f, <<"stat", "read">>)

\* handleGetFileRaw(c, fullPath)
handleGetFileRaw(f, fullPath) ==
    IF IsNotExist(Stat(f, fullPath).err)
    THEN Done(HTTPError(404, MsgNotFound), f, <<"stat">>)
    ELSE LET rd == ReadFile(f, fullPath)
         IN  IF rd.err # "ok"
             THEN Done(HTTPError(500, MsgReadFailed), f, <<"stat", "read">>)
             ELSE Done(StringResponse(200, rd.content), f, <<"stat", "read">>)

\* A plausible slip: os.Mkdir in place of os.MkdirAll, which makes the
\* parent directory only.
handleSaveFileMkdirOnly(f, fullPath, content) ==
    LET mk == Mkdir(f, Dir(fullPath))
    IN  IF mk.err \notin {"ok", "EEXIST"}
        THEN Done(JSONResponse(500, FALSE, "", MsgSaveFailed), mk.fs,
                  <<"mkdirall">>)
        ELSE LET wr == WriteFile(mk.fs, fullPath, content)
             IN  IF wr.err # "ok"
                 THEN Done(JSONResponse(500, FALSE, "", MsgSaveFailed), wr.fs,
                           <<"mkdirall", "write">>)
                 ELSE Done(JSONResponse(200, TRUE, MsgSaved, ""), wr.fs,
                           <<"mkdirall", "write">>)

\* handleSaveFile(c, fullPath, content)
handleSaveFile(f, fullPath, content) ==
    LET mk == MkdirAll(f, Dir(fullPath))
    IN  IF mk.err # "ok"
        THEN Done(JSONResponse(500, FALSE, "", MsgSaveFailed), mk.fs,
                  <<"mkdirall">>)
        ELSE LET wr == WriteFile(mk.fs, fullPath, content)
             IN  IF wr.err # "ok"
                 THEN Done(JSONResponse(500, FALSE, "", MsgSaveFailed), wr.fs,
                           <<"mkdirall", "write">>)
                 ELSE Done(JSONResponse(200, TRUE, MsgSaved, ""), wr.fs,
                           <<"mkdirall", "write">>)

----------------------------------------------------------------------------
(* The request handlers (storage.go).                                      *)

\* What a request handler did: the response, the resolver's answer (NoRes
\* when the resolver was not called), the filesystem and the operations.
Outcome(response, r, f, ops) ==
    [resp |-> response, res |-> r, fs |-> f, trace |-> ops]

WithRes(r, d) == Outcome(d.resp, r, d.fs, <<"resolve">> \o d.ops)

\* A plausible slip: every rejection of the resolver answered as 400.
processStorageRequestAlways400(f, method, path, content, dir, wd, wdOk) ==
    LET r == validateAndResolvePath(path, dir, wd, wdOk)
    IN  IF r.kind # "ok"
        THEN Outcome(JSONResponse(400, FALSE, "", r.message), r, f,
                     <<"resolve">>)
        ELSE IF method = "GET" THEN WithRes(r, handleGetFile(f, r.path))
        ELSE WithRes(r, handleSaveFile(f, r.path, content))

\* A plausible slip: the resolver's error is not returned for a POST, and
\* the file is saved at the joined path all the same.
processStorageRequestSavesAnyway(f, method, path, content, dir, wd, wdOk) ==
    LET r == validateAndResolvePath(path, dir, wd, wdOk)
    IN  IF r.kind # "ok" /\ method # "POST"
        THEN Outcome(JSONResponse(r.code, FALSE, "", r.message), r, f,
                     <<"resolve">>)
        ELSE IF method = "GET" THEN WithRes(r, handleGetFile(f, r.path))
        ELSE WithRes(r, handleSaveFile(f, Abs(Join(dir, path), wd, TRUE).path,
                                       content))

\* processStorageRequest(c, path, content)
processStorageRequest(f, method, path, content, dir, wd, wdOk) ==
    LET r == validateAndResolvePath(path, dir, wd, wdOk)
    IN  IF r.kind # "ok"
        THEN Outcome(JSONResponse(r.code, FALSE, "", r.message), r, f,
                     <<"resolve">>)
        ELSE IF method = "GET" THEN WithRes(r, handleGetFile(f, r.path))
        ELSE IF method = "POST"
             THEN WithRes(r, handleSaveFile(f, r.path, content))
        ELSE Outcome(JSONResponse(405, FALSE, "", MsgMethodNotAllowed), r, f,
                     <<"resolve">>)

\* processStorageRequestRaw(c, path)
processStorageRequestRaw(f, path, dir, wd, wdOk) ==
    LET r == validateAndResolvePath(path, dir, wd, wdOk)
    IN  IF r.kind # "ok"
        THEN Outcome(HTTPError(r.code, r.message), r, f, <<"resolve">>)
        ELSE WithRes(r, handleGetFileRaw(f, r.path))

\* A plausible slip: a relative path is given its leading separator, as the
\* URL route does, instead of being handed to the resolver as it is.
handleStoragePrefixing(f, request, dir, wd, wdOk) ==
    IF ~request.bodyOk
    THEN Outcome(JSONResponse(400, FALSE, "", "invalid request body"), NoRes,
                 f, <<>>)
    ELSE IF request.path = <<>>
    THEN Outcome(JSONResponse(400, FALSE, "", MsgPathRequired), NoRes, f, <<>>)
    ELSE processStorageRequest(f, request.method,
                               <<Sep>> \o TrimPrefix(request.path, <<Sep>>),
                               request.content, dir, wd, wdOk)

\* handleStorage(c): the JSON route, GET and POST /api/storage
handleStorage(f, request, dir, wd, wdOk) ==
    IF ~request.bodyOk
    THEN Outcome(JSONResponse(400, FALSE, "", "invalid request body"), NoRes,
                 f, <<>>)
    ELSE IF request.path = <<>>
    THEN Outcome(JSONResponse(400, FALSE, "", MsgPathRequired), NoRes, f, <<>>)
    ELSE processStorageRequest(f, request.method, request.path,
                               request.content, dir, wd, wdOk)

\* handleStorageWithPath(c): the URL route, GET /api/storage/*;
\* request.path is c.Param("*")
handleStorageWithPath(f, request, dir, wd, wdOk) ==
    IF request.path = <<>>
    THEN Outcome(JSONResponse(400, FALSE, "", MsgPathRequired), NoRes, f, <<>>)
    ELSE LET path == <<Sep>> \o TrimPrefix(request.path, <<Sep>>)
         IN  IF path = <<Sep>>
             THEN Outcome(JSONResponse(400, FALSE, "", MsgPathRequired), NoRes,
                          f, <<>>)
             ELSE IF request.method # "GET"
             THEN Outcome(JSONResponse(405, FALSE, "", MsgMethodNotAllowedURL),
                          NoRes, f, <<>>)
             ELSE processStorageRequestRaw(f, path, dir, wd, wdOk)

----------------------------------------------------------------------------
(* Configuration (config.go).                                              *)

\* The nil *Config.
NoConfig == [nil |-> TRUE]

\* "./storage"
DefaultStorageDir == <<".", "/", "s", "t", "o", "r", "a", "g", "e">>

Config(groups, dir) ==
    [Messages |-> [Groups |-> groups], Storage |-> [Dir |-> dir]]

\* A plausible slip: the default is given only when no file is named.
loadConfigKeepingEmptyDir(file) ==
    IF file.path = ""
    THEN [err |-> FALSE, config |-> Config(<<>>, DefaultStorageDir)]
    ELSE IF ~file.readable \/ ~file.yaml
    THEN [err |-> TRUE, config |-> NoConfig]
    ELSE [err |-> FALSE, config |-> Config(file.groups, file.dir)]

\* loadConfig(configPath); a map without entries stands for both the nil
\* map and the map made by make, which no reader of Groups tells apart.
loadConfig(file) ==
    IF file.path = ""
    THEN [err |-> FALSE, config |-> Config(<<>>, DefaultStorageDir)]
    ELSE IF ~file.readable
    THEN [err |-> TRUE, config |-> NoConfig]
    ELSE IF ~file.yaml
    THEN [err |-> TRUE, config |-> NoConfig]
    ELSE [err |-> FALSE,
          config |-> Config(file.groups,
                            IF file.dir = <<>> THEN DefaultStorageDir
                            ELSE file.dir)]

----------------------------------------------------------------------------
(* Messages (messages.go, config.go). Recipients, which the code inspects  *)
(* character by character, are sequences of characters; a nil slice and an *)
(* empty one are both the empty sequence.                                  *)

Digits == { "0", "1", "2", "3", "4", "5", "6", "7", "8", "9" }

\* Fewest digits of a phone number.
MinDigits == 10

\* The nil *string of MessageResult.Error.
NoError == "<nil>"

ErrNoPlus == "phone number must start with +"
ErrNotDigits == "phone number can only contain digits after the +"
ErrTooShort == "phone number must be at least 10 digits"
ErrAppleScript == "AppleScript error: <output>"

\* strings.ReplaceAll(s, " ", "")
RemoveSpaces(s) == SelectSeq(s, LAMBDA ch : ch # " ")

\* A plausible slip: the check of the minimum length left out.
validatePhoneNumberNoMinimum(phoneNumber) ==
    LET cleanNumber == RemoveSpaces(phoneNumber)
    IN  IF ~HasPrefix(cleanNumber, <<"+">>)
        THEN ErrNoPlus
        ELSE LET digitsOnly == TrimPrefix(cleanNumber, <<"+">>)
             IN  IF ~(/\ digitsOnly # <<>>
                      /\ \A i \in 1..Len(digitsOnly) : digitsOnly[i] \in Digits)
                 THEN ErrNotDigits
                 ELSE NoError

\* validatePhoneNumber(phoneNumber): the error, or NoError
validatePhoneNumber(phoneNumber) ==
    LET cleanNumber == RemoveSpaces(phoneNumber)
    IN  IF ~HasPrefix(cleanNumber, <<"+">>)
        THEN ErrNoPlus
        ELSE LET digitsOnly == TrimPrefix(cleanNumber, <<"+">>)
             IN  IF ~(/\ digitsOnly # <<>>
                      /\ \A i \in 1..Len(digitsOnly) : digitsOnly[i] \in Digits)
                 THEN ErrNotDigits
                 ELSE IF Len(digitsOnly) < MinDigits
                 THEN ErrTooShort
                 ELSE NoError

\* expandGroups(recipients), appConfig passed as config
RECURSIVE expandGroups(_, _)
expandGroups(recipients, config) ==
    IF config = NoConfig
    THEN recipients
    ELSE IF recipients = <<>>
    THEN <<>>
    ELSE LET recipient == Head(recipients)
             groups == config.Messages.Groups
         IN  (IF recipient \in DOMAIN groups
              THEN groups[recipient]
              ELSE <<recipient>>)
             \o expandGroups(Tail(recipients), config)

\* sendMessage(recipient, message), with executeAppleScript: osascript runs
\* and either succeeds or fails, as ok says.
sendMessage(recipient, message, ok) ==
    IF ok THEN NoError ELSE ErrAppleScript

MessageResult(recipient, success, error) ==
    [recipient |-> recipient, success |-> success, error |-> error]

\* The iterations of sendMessages's loop from recipient i on: the results
\* appended and the calls made.
RECURSIVE sendMessagesFrom(_, _, _, _)
sendMessagesFrom(recipients, message, scriptOk, i) ==
    IF i > Len(recipients)
    THEN [results |-> <<>>, ops |-> <<>>]
    ELSE LET recipient == recipients[i]
             invalid == validatePhoneNumber(recipient)
             rest == sendMessagesFrom(recipients, message, scriptOk, i + 1)
         IN  IF invalid # NoError
             THEN [results |-> <<MessageResult(recipient, FALSE, invalid)>>
                                \o rest.results,
                   ops |-> <<"validatePhoneNumber">> \o rest.ops]
             ELSE LET err == sendMessage(recipient, message, scriptOk[i])
                  IN  [results |-> <<MessageResult(recipient, err = NoError, err)>>
                                   \o rest.results,
                       ops |-> <<"validatePhoneNumber", "osascript">> \o rest.ops]

\* A plausible slip: break in place of continue, so that the loop ends at
\* the first recipient that fails validation.
RECURSIVE sendMessagesStoppingFrom(_, _, _, _)
sendMessagesStoppingFrom(recipients, message, scriptOk, i) ==
    IF i > Len(recipients)
    THEN [results |-> <<>>, ops |-> <<>>]
    ELSE LET recipient == recipients[i]
             invalid == validatePhoneNumber(recipient)
             rest == sendMessagesStoppingFrom(recipients, message, scriptOk, i + 1)
         IN  IF invalid # NoError
             THEN [results |-> <<MessageResult(recipient, FALSE, invalid)>>,
                   ops |-> <<"validatePhoneNumber">>]
             ELSE LET err == sendMessage(recipient, message, scriptOk[i])
                  IN  [results |-> <<MessageResult(recipient, err = NoError, err)>>
                                   \o rest.results,
                       ops |-> <<"validatePhoneNumber", "osascript">> \o rest.ops]

sendMessagesStoppingAtFailure(recipients, message, scriptOk) ==
    sendMessagesStoppingFrom(recipients, message, scriptOk, 1)

\* sendMessages(recipients, message); scriptOk[i] tells whether osascript
\* succeeds for the i-th recipient.
sendMessages(recipients, message, scriptOk) ==
    sendMessagesFrom(recipients, message, scriptOk, 1)

\* c.JSON(200, MessageResponse{Results: results})
MessageResponse(results) ==
    [status |-> 200, body |-> "MessageResponse", results |-> results]

\* c.JSON(400, map[string]interface{}{"error": ..., "details": ...})
BadRequest(error, details) ==
    [status |-> 400, body |-> "map", error |-> error, details |-> details]

\* A plausible slip: the check of the message content left out.
handleSendMessagesNoMessageCheck(request, config, scriptOk) ==
    IF ~request.bodyOk
    THEN [resp |-> BadRequest("Invalid request format", "err.Error()"),
          trace |-> <<>>]
    ELSE IF Len(request.to) = 0
    THEN [resp |-> BadRequest("At least one recipient is required", ""),
          trace |-> <<>>]
    ELSE LET expandedRecipients == expandGroups(request.to, config)
             sent == sendMessages(expandedRecipients, request.message, scriptOk)
         IN  [resp |-> MessageResponse(sent.results), trace |-> sent.ops]

\* handleSendMessages(c): POST /api/messages
handleSendMessages(request, config, scriptOk) ==
    IF ~request.bodyOk
    THEN [resp |-> BadRequest("Invalid request format", "err.Error()"),
          trace |-> <<>>]
    ELSE IF Len(request.to) = 0
    THEN [resp |-> BadRequest("At least one recipient is required", ""),
          trace |-> <<>>]
    ELSE IF request.message = ""
    THEN [resp |-> BadRequest("Message content is required", ""),
          trace |-> <<>>]
    ELSE LET expandedRecipients == expandGroups(request.to, config)
             sent == sendMessages(expandedRecipients, request.message, scriptOk)
         IN  [resp |-> MessageResponse(sent.results), trace |-> sent.ops]

----------------------------------------------------------------------------
(* Uptime (uptime.go). The output of the uptime command and the formatted  *)
(* uptime are sequences of characters.                                     *)

\* The value of a decimal digit.
DigitValue(ch) ==
    CASE ch = "0" -> 0 [] ch = "1" -> 1 [] ch = "2" -> 2 [] ch = "3" -> 3
      [] ch = "4" -> 4 [] ch = "5" -> 5 [] ch = "6" -> 6 [] ch = "7" -> 7
      [] ch = "8" -> 8 [] ch = "9" -> 9

DigitChar(n) ==
    CASE n = 0 -> "0" [] n = 1 -> "1" [] n = 2 -> "2" [] n = 3 -> "3"
      [] n = 4 -> "4" [] n = 5 -> "5" [] n = 6 -> "6" [] n = 7 -> "7"
      [] n = 8 -> "8" [] n = 9 -> "9"

\* strconv.Atoi of a string of digits
RECURSIVE Atoi(_)
Atoi(digits) ==
    IF digits = <<>> THEN 0
    ELSE 10 * Atoi(SubSeq(digits, 1, Len(digits) - 1))
         + DigitValue(digits[Len(digits)])

\* fmt.Sprintf("%d", n) for n >= 0
RECURSIVE Itoa(_)
Itoa(n) ==
    IF n < 10 THEN <<DigitChar(n)>>
    ELSE Itoa(n \div 10) \o <<DigitChar(n % 10)>>

\* strings.Index(s, substr): the position of the first occurrence, counted
\* from 1, or 0 when there is none
Index(s, substr) ==
    LET at == { i \in 1..(Len(s) - Len(substr) + 1) :
                  SubSeq(s, i, i + Len(substr) - 1) = substr }
    IN  IF at = {} THEN 0 ELSE CHOOSE i \in at : \A j \in at : i <= j

IsSpace(ch) == ch \in { " ", "\t", "\n" }

\* strings.TrimSpace(s)
RECURSIVE TrimSpace(_)
TrimSpace(s) ==
    IF s = <<>> THEN s
    ELSE IF IsSpace(s[1]) THEN TrimSpace(Tail(s))
    ELSE IF IsSpace(s[Len(s)]) THEN TrimSpace(SubSeq(s, 1, Len(s) - 1))
    ELSE s

\* strings.Split(s, ",")[0]
FirstPart(s) ==
    LET comma == Index(s, <<",">>)
    IN  IF comma = 0 THEN s ELSE SubSeq(s, 1, comma - 1)

\* The end of the longest run of digits of s that starts at i, or i - 1
\* when s has no digit at i.
RECURSIVE DigitsEnd(_, _)
DigitsEnd(s, i) ==
    IF i <= Len(s) /\ s[i] \in Digits THEN DigitsEnd(s, i + 1) ELSE i - 1

\* The end of the longest run of white space of s that starts at i.
RECURSIVE SpacesEnd(_, _)
SpacesEnd(s, i) ==
    IF i <= Len(s) /\ IsSpace(s[i]) THEN SpacesEnd(s, i + 1) ELSE i - 1

\* regexp (\d+)\s+day, FindStringSubmatch: the first group of the leftmost
\* match, or <<>> when nothing matches
DayMatch(s) ==
    LET at == { i \in 1..Len(s) :
                  LET e == DigitsEnd(s, i)
                      w == SpacesEnd(s, e + 1)
                  IN  /\ e >= i
                      /\ w > e
                      /\ w + 3 <= Len(s)
                      /\ SubSeq(s, w + 1, w + 3) = <<"d", "a", "y">> }
    IN  IF at = {} THEN <<>>
        ELSE LET i == CHOOSE i \in at : \A j \in at : i <= j
             IN  SubSeq(s, i, DigitsEnd(s, i))

\* regexp (\d+):(\d+), FindStringSubmatch: the two groups of the leftmost
\* match, or <<>> when nothing matches
TimeMatch(s) ==
    LET at == { i \in 1..Len(s) :
                  LET e == DigitsEnd(s, i)
                  IN  /\ e >= i
                      /\ e + 1 <= Len(s)
                      /\ s[e + 1] = ":"
                      /\ DigitsEnd(s, e + 2) >= e + 2 }
    IN  IF at = {} THEN <<>>
        ELSE LET i == CHOOSE i \in at : \A j \in at : i <= j
                 e == DigitsEnd(s, i)
             IN  << SubSeq(s, i, e), SubSeq(s, e + 2, DigitsEnd(s, e + 2)) >>

\* A reading of the comment of parseUptimeString that the code does not
\* have: days and H:MM both taken from everything that follows "up".
parseUptimeOutputWhole(output) ==
    LET upIndex == Index(output, <<"u", "p">>)
    IN  IF upIndex = 0
        THEN [err |-> TRUE, seconds |-> 0]
        ELSE LET afterUp == SubSeq(output, upIndex + 2, Len(output))
                 dayMatches == DayMatch(afterUp)
                 timeMatches == TimeMatch(afterUp)
             IN  [err |-> FALSE,
                  seconds |->
                      (IF dayMatches # <<>>
                       THEN Atoi(dayMatches) * 24 * 60 * 60 ELSE 0)
                      + (IF timeMatches # <<>>
                         THEN Atoi(timeMatches[1]) * 60 * 60
                              + Atoi(timeMatches[2]) * 60
                         ELSE 0)]

\* parseUptimeString(uptimeString): the seconds
parseUptimeString(uptimeString) ==
    LET dayMatches == DayMatch(uptimeString)
        timeMatches == TimeMatch(uptimeString)
    IN  (IF dayMatches # <<>> THEN Atoi(dayMatches) * 24 * 60 * 60 ELSE 0)
        + (IF timeMatches # <<>>
           THEN Atoi(timeMatches[1]) * 60 * 60 + Atoi(timeMatches[2]) * 60
           ELSE 0)

\* parseUptimeOutput(output)
parseUptimeOutput(output) ==
    LET upIndex == Index(output, <<"u", "p">>)
    IN  IF upIndex = 0
        THEN [err |-> TRUE, seconds |-> 0]
        ELSE LET afterUp == SubSeq(output, upIndex + 2, Len(output))
                 uptimeString == TrimSpace(FirstPart(afterUp))
             IN  [err |-> FALSE, seconds |-> parseUptimeString(uptimeString)]

\* The text of one unit: fmt.Sprintf("%d day", days), with "s" appended
\* unless the value is 1.
UnitText(value, unit) ==
    Itoa(value) \o <<" ">> \o unit \o (IF value # 1 THEN <<"s">> ELSE <<>>)

\* strings.Join(texts, ", ")
RECURSIVE JoinComma(_)
JoinComma(texts) ==
    IF texts = <<>> THEN <<>>
    ELSE IF Len(texts) = 1 THEN texts[1]
    ELSE texts[1] \o <<",", " ">> \o JoinComma(Tail(texts))

\* UptimeResponse{Uptime, UptimeSeconds, Formatted}
UptimeResponse(uptime, uptimeSeconds, formatted) ==
    [status |-> 200, body |-> "UptimeResponse", uptime |-> uptime,
     uptimeSeconds |-> uptimeSeconds, formatted |-> formatted]

\* A plausible slip: the plural form for every value.
formatUptimeResponseAlwaysPlural(uptimeSeconds) ==
    LET days == uptimeSeconds \div (24 * 60 * 60)
        hours == (uptimeSeconds % (24 * 60 * 60)) \div (60 * 60)
        minutes == (uptimeSeconds % (60 * 60)) \div 60
        formatted ==
            (IF days > 0
             THEN << Itoa(days) \o <<" ", "d", "a", "y", "s">> >> ELSE <<>>)
            \o (IF hours > 0
                THEN << Itoa(hours) \o <<" ", "h", "o", "u", "r", "s">> >>
                ELSE <<>>)
            \o (IF minutes > 0
                THEN << Itoa(minutes)
                        \o <<" ", "m", "i", "n", "u", "t", "e", "s">> >>
                ELSE <<>>)
        formattedString == JoinComma(formatted)
    IN  UptimeResponse(formattedString, uptimeSeconds, formattedString)

\* formatUptimeResponse(uptimeSeconds), for a whole number of seconds
formatUptimeResponse(uptimeSeconds) ==
    LET days == uptimeSeconds \div (24 * 60 * 60)
        hours == (uptimeSeconds % (24 * 60 * 60)) \div (60 * 60)
        minutes == (uptimeSeconds % (60 * 60)) \div 60
        formatted ==
            (IF days > 0 THEN <<UnitText(days, <<"d", "a", "y">>)>> ELSE <<>>)
            \o (IF hours > 0
                THEN <<UnitText(hours, <<"h", "o", "u", "r">>)>> ELSE <<>>)
            \o (IF minutes > 0
                THEN <<UnitText(minutes, <<"m", "i", "n", "u", "t", "e">>)>>
                ELSE <<>>)
        formattedString == JoinComma(formatted)
    IN  UptimeResponse(formattedString, uptimeSeconds, formattedString)

\* getUptime() with getNativeUptime, which always fails, and
\* getShellUptime: command is what running uptime gave.
getUptime(command) ==
    IF ~command.ok
    THEN [err |-> TRUE, response |-> UptimeResponse(<<>>, 0, <<>>)]
    ELSE LET parsed == parseUptimeOutput(command.output)
         IN  IF parsed.err
             THEN [err |-> TRUE, response |-> UptimeResponse(<<>>, 0, <<>>)]
             ELSE [err |-> FALSE,
                   response |-> formatUptimeResponse(parsed.seconds)]

\* handleGetUptime(c): GET /api/uptime
handleGetUptime(command) ==
    LET uptime == getUptime(command)
    IN  IF uptime.err
        THEN [status |-> 500, body |-> "map", error |-> "Failed to get uptime",
              details |-> "err.Error()"]
        ELSE uptime.response

----------------------------------------------------------------------------
(* Storage notifications: the later revision of storage.go, whose JSON     *)
(* route takes a notify list and whose file handlers start a goroutine     *)
(* running sendStorageNotification before they return.                     *)

MsgNotifyEmpty ==
    "notify field cannot be empty - either omit it or provide at least one recipient"

\* filepath.Base(path)
Base(path) ==
    LET elems == SelectSeq(Elements(path), LAMBDA e : e # <<>>)
    IN  IF path = <<>> THEN <<Dot>>
        ELSE IF elems = <<>> THEN <<Sep>>
        ELSE elems[Len(elems)]

\* The arguments of one call of sendStorageNotification.
Notification(notify, operation, filePath, success, message) ==
    [notify |-> notify, operation |-> operation, filePath |-> filePath,
     success |-> success, message |-> message]

\* if len(notify) > 0 { go sendStorageNotification(...) }: the goroutines
\* started.
Go(notify, operation, filePath, success, message) ==
    IF Len(notify) > 0
    THEN <<Notification(notify, operation, filePath, success, message)>>
    ELSE <<>>

\* What a file handler did, with the goroutines it started.
Spawned(d, tasks) ==
    [resp |-> d.resp, fs |-> d.fs, ops |-> d.ops, spawn |-> tasks]

\* A plausible slip: no notification when the file is missing.
handleGetFileNotifySilentWhenMissing(f, fullPath, notify) ==
    IF IsNotExist(Stat(f, fullPath).err)
    THEN Spawned(Done(HTTPError(404, MsgNotFound), f, <<"stat">>), <<>>)
    ELSE LET rd == ReadFile(f, fullPath)
         IN  IF rd.err # "ok"
             THEN Spawned(Done(JSONResponse(500, FALSE, "", MsgReadFailed), f,
                               <<"stat", "read">>),
                          Go(notify, "GET", fullPath, FALSE, "read file"))
             ELSE Spawned(Done(JSONResponse(200, TRUE, rd.content, ""), f,
                               <<"stat", "read">>),
                          Go(notify, "GET", fullPath, TRUE,
                             "retrieved successfully"))

\* handleGetFile(c, fullPath, notify)
handleGetFileNotify(f, fullPath, notify) ==
    IF IsNotExist(Stat(f, fullPath).err)
    THEN Spawned(Done(HTTPError(404, MsgNotFound), f, <<"stat">>),
                 Go(notify, "GET", fullPath, FALSE, "find file"))
    ELSE LET rd == ReadFile(f, fullPath)
         IN  IF rd.err # "ok"
             THEN Spawned(Done(JSONResponse(500, FALSE, "", MsgReadFailed), f,
                               <<"stat", "read">>),
                          Go(notify, "GET", fullPath, FALSE, "read file"))
             ELSE Spawned(Done(JSONResponse(200, TRUE, rd.content, ""), f,
                               <<"stat", "read">>),
                          Go(notify, "GET", fullPath, TRUE,
                             "retrieved successfully"))

\* handleSaveFile(c, fullPath, content, notify)
handleSaveFileNotify(f, fullPath, content, notify) ==
    LET mk == MkdirAll(f, Dir(fullPath))
    IN  IF mk.err # "ok"
        THEN Spawned(Done(JSONResponse(500, FALSE, "", MsgSaveFailed), mk.fs,
                          <<"mkdirall">>),
                     Go(notify, "POST", fullPath, FALSE, "create directory"))
        ELSE LET wr == WriteFile(mk.fs, fullPath, content)
             IN  IF wr.err # "ok"
                 THEN Spawned(Done(JSONResponse(500, FALSE, "", MsgSaveFailed),
                                   wr.fs, <<"mkdirall", "write">>),
                              Go(notify, "POST", fullPath, FALSE, "write file"))
                 ELSE Spawned(Done(JSONResponse(200, TRUE, MsgSaved, ""), wr.fs,
                                   <<"mkdirall", "write">>),
                              Go(notify, "POST", fullPath, TRUE,
                                 "saved successfully"))

\* What a request handler did, with the goroutines it started.
OutcomeSpawning(response, r, f, ops, tasks) ==
    [resp |-> response, res |-> r, fs |-> f, trace |-> ops, spawn |-> tasks]

WithResSpawning(r, d) ==
    OutcomeSpawning(d.resp, r, d.fs, <<"resolve">> \o d.ops, d.spawn)

\* processStorageRequest(c, path, content, notify)
processStorageRequestNotify(f, method, path, content, notify, dir, wd, wdOk) ==
    LET r == validateAndResolvePath(path, dir, wd, wdOk)
    IN  IF r.kind # "ok"
        THEN OutcomeSpawning(JSONResponse(r.code, FALSE, "", r.message), r, f,
                             <<"resolve">>, <<>>)
        ELSE IF method = "GET"
        THEN WithResSpawning(r, handleGetFileNotify(f, r.path, notify))
        ELSE IF method = "POST"
        THEN WithResSpawning(r, handleSaveFileNotify(f, r.path, content, notify))
        ELSE OutcomeSpawning(JSONResponse(405, FALSE, "", MsgMethodNotAllowed),
                             r, f, <<"resolve">>, <<>>)

\* A plausible slip: the check of the notify list left out.
handleStorageNotifyUnchecked(f, request, dir, wd, wdOk) ==
    IF ~request.bodyOk
    THEN OutcomeSpawning(JSONResponse(400, FALSE, "", "invalid request body"),
                         NoRes, f, <<>>, <<>>)
    ELSE IF request.path = <<>>
    THEN OutcomeSpawning(JSONResponse(400, FALSE, "", MsgPathRequired), NoRes,
                         f, <<>>, <<>>)
    ELSE processStorageRequestNotify(f, request.method, request.path,
                                     request.content, request.notify, dir, wd,
                                     wdOk)

\* handleStorage(c) of the later revision; request.notifyGiven tells a
\* notify list in the body, possibly empty, from none (nil).
handleStorageNotify(f, request, dir, wd, wdOk) ==
    IF ~request.bodyOk
    THEN OutcomeSpawning(JSONResponse(400, FALSE, "", "invalid request body"),
                         NoRes, f, <<>>, <<>>)
    ELSE IF request.path = <<>>
    THEN OutcomeSpawning(JSONResponse(400, FALSE, "", MsgPathRequired), NoRes,
                         f, <<>>, <<>>)
    ELSE IF request.notifyGiven /\ Len(request.notify) = 0
    THEN OutcomeSpawning(JSONResponse(400, FALSE, "", MsgNotifyEmpty), NoRes,
                         f, <<>>, <<>>)
    ELSE processStorageRequestNotify(f, request.method, request.path,
                                     request.content, request.notify, dir, wd,
                                     wdOk)

\* sendStorageNotification(notify, operation, filePath, success, message):
\* the results it logs.
sendStorageNotification(task, config, scriptOk) ==
    IF Len(task.notify) = 0
    THEN <<>>
    ELSE LET expandedRecipients == expandGroups(task.notify, config)
             fileName == Base(task.filePath)
             notificationMessage ==
                 IF task.success
                 THEN [format |-> "%s %s",
                       args |-> <<fileName, task.message>>]
                 ELSE [format |-> "Failed to %s %s: %s",
                       args |-> <<task.operation, fileName, task.message>>]
         IN  sendMessages(expandedRecipients, notificationMessage,
                          scriptOk).results

----------------------------------------------------------------------------
(* The environment: configured storage directories, working directories,   *)
(* the filesystem at startup and the requests clients send.                *)

\* Values of storage.dir: absolute, with a trailing separator, relative,
\* and the default "./storage" shape.
StorageDirs ==
    { <<"/", "s">>, <<"/", "s", "/">>, <<"s">>, <<".", "/", "s">> }

WorkDirs == { <<"/">>, <<"/", "w">> }

\* messages.groups of the configuration file: group name -> members.
ConfiguredGroups ==
    ( <<"f", "a", "m">> :> << <<"+", "1", "2", "3", "4", "5", "6", "7", "8", "9", "0">>,
                             <<"+", "1", "2", "3">> >>
      @@ <<"w", "r", "k">> :> << <<"b", "@", "c">>,
                               <<"+", "1", "2", "3", "4", "5", "6", "7", "8", "9", "0">> >>
      @@ <<"n", "o", "b">> :> <<>> )

\* What main is started with: no -config flag, a file that cannot be read,
\* a file that is not YAML, or a YAML file with its storage.dir (empty when
\* the key is absent or empty) and its messages.groups.
NoFlag == [path |-> "", readable |-> FALSE, yaml |-> FALSE, dir |-> <<>>,
           groups |-> <<>>]

Unreadable == [path |-> "c", readable |-> FALSE, yaml |-> FALSE, dir |-> <<>>,
               groups |-> <<>>]

NotYAML == [path |-> "c", readable |-> TRUE, yaml |-> FALSE, dir |-> <<>>,
            groups |-> <<>>]

ConfigFile(dir, groups) ==
    [path |-> "c", readable |-> TRUE, yaml |-> TRUE, dir |-> dir,
     groups |-> groups]

ConfigInputs ==
    { NoFlag, Unreadable, NotYAML, ConfigFile(<<>>, ConfiguredGroups) }
    \cup { ConfigFile(d, ConfiguredGroups) : d \in StorageDirs }

\* /s holds a directory a with a file f, a file f, an unreadable file u, a
\* symbolic link l to the directory /e outside it and a dangling link d to
\* /e/n; /sx is a sibling whose name starts with the name of /s.
InitialFS ==
    ( <<"/">> :> DirNode
      @@ <<"/", "s">> :> DirNode
      @@ <<"/", "s", "/", "a">> :> DirNode
      @@ <<"/", "s", "/", "a", "/", "f">> :> FileNode("init", "rw")
      @@ <<"/", "s", "/", "f">> :> FileNode("init", "rw")
      @@ <<"/", "s", "/", "u">> :> FileNode("init", "none")
      @@ <<"/", "s", "/", "l">> :> LinkNode(<<"/", "e">>)
      @@ <<"/", "s", "/", "d">> :> LinkNode(<<"/", "e", "/", "n">>)
      @@ <<"/", "e">> :> DirNode
      @@ <<"/", "e", "/", "p">> :> FileNode("secret", "rw")
      @@ <<"/", "s", "x">> :> DirNode
      @@ <<"/", "s", "x", "/", "p">> :> FileNode("secret", "rw")
      @@ <<"/", "w">> :> DirNode )

\* Logical paths of requests.
RequestPaths ==
    { <<>>, <<"/">>, <<"f">>, <<"a", "/", "f">>,
      <<"/", "f">>, <<"/", "a">>, <<"/", "u">>, <<"/", "l">>, <<"/", "d">>,
      <<"/", "n">>, <<"/", ".">>, <<"/", ".", ".">>, <<"/", "f", ".", ".">>,
      <<"/", "/", "f">>, <<"/", "a", "/">>,
      <<"/", "a", "/", "f">>, <<"/", "a", "/", "n">>, <<"/", "a", "/", "/", "f">>,
      <<"/", "f", "/", "n">>, <<"/", "l", "/", "p">>, <<"/", "l", "/", "n">>,
      <<"/", "n", "/", "n">>, <<"/", "n", "/", "n", "/", "n">>,
      <<"/", ".", ".", "/", "e", "/", "p">>,
      <<"/", ".", ".", "/", "s", "x", "/", "p">> }

\* Values of c.Param("*"): what follows "/api/storage/" in the URL.
URLParams == RequestPaths \cup { TrimPrefix(p, <<Sep>>) : p \in RequestPaths }

Contents == { "", "v" }

Request(route, method, path, content, bodyOk) ==
    [route |-> route, method |-> method, path |-> path, content |-> content,
     bodyOk |-> bodyOk]

\* The requests echo's router hands to handleStorage (main.go registers it
\* for GET and POST /api/storage).
JSONRequests ==
    { Request("json", "GET", p, "", TRUE) : p \in RequestPaths }
    \cup { Request("json", "POST", p[1], p[2], TRUE) :
             p \in RequestPaths \X Contents }
    \cup { Request("json", m, <<>>, "", FALSE) : m \in {"GET", "POST"} }

\* The requests the router hands to handleStorageWithPath (registered for
\* GET /api/storage/* only).
URLRequests == { Request("url", "GET", p, "", TRUE) : p \in URLParams }

----------------------------------------------------------------------------
(* The state machine.                                                      *)

\* The process starts: appConfig is nil until main assigns it.
Init ==
    /\ configFile \in ConfigInputs
    /\ appConfig = NoConfig
    /\ cwd \in WorkDirs
    /\ getwdOk \in BOOLEAN
    /\ fs = InitialFS
    /\ pc = "boot"
    /\ req = NoReq
    /\ res = NoRes
    /\ resp = NoResp
    /\ trace = <<>>
    /\ writes = 0
    /\ goroutines = <<>>
    /\ notified = <<>>
    /\ saved = <<>>

\* A plausible slip: a configuration that cannot be loaded is replaced by
\* the default one instead of ending the process.
MainFallingBack ==
    /\ pc = "boot"
    /\ LET r == loadConfig(configFile)
       IN  /\ appConfig' = (IF r.err THEN loadConfig(NoFlag).config ELSE r.config)
           /\ pc' = "idle"
    /\ UNCHANGED <<configFile, cwd, getwdOk, fs, req, res, resp, trace, writes,
                   goroutines, notified, saved>>

\* main(): appConfig is assigned the result of loadConfig; on an error the
\* process ends (log.Fatalf), otherwise the routes are registered and the
\* server starts.
Main ==
    /\ pc = "boot"
    /\ LET r == loadConfig(configFile)
       IN  /\ appConfig' = r.config
           /\ pc' = (IF r.err THEN "exit" ELSE "idle")
    /\ UNCHANGED <<configFile, cwd, getwdOk, fs, req, res, resp, trace, writes,
                   goroutines, notified, saved>>

\* The plainest spelling of a logical path: its elements, without the
\* empty ones and the "." ones, each after one separator.
Spelling(path) ==
    <<Sep>> \o JoinSep(SelectSeq(Elements(path),
                                LAMBDA e : e # <<>> /\ e # <<Dot>>))

\* The history of saves after a request: a save answered with the 200
\* success is remembered for the logical path it names.
Remember(history, request, out) ==
    IF request.method = "POST" /\ out.resp.status = 200
    THEN [p \in DOMAIN history \cup {Spelling(request.path)} |->
            IF p = Spelling(request.path) THEN request.content ELSE history[p]]
    ELSE history

\* A request is answered: the handler's effect on the filesystem and its
\* response.
AnswerWithin(request, out, bound) ==
    /\ out.fs # fs => writes < bound
    /\ req' = request
    /\ res' = out.res
    /\ resp' = out.resp
    /\ trace' = out.trace
    /\ fs' = out.fs
    /\ writes' = IF out.fs # fs THEN writes + 1 ELSE writes
    /\ saved' = Remember(saved, request, out)
    /\ pc' = "done"
    /\ UNCHANGED <<configFile, appConfig, cwd, getwdOk, goroutines, notified>>

Answer(request, out) == AnswerWithin(request, out, MaxWrites)

\* GET or POST /api/storage
HandleStorage ==
    /\ pc = "idle"
    /\ \E request \in JSONRequests :
         Answer(request,
                handleStorage(fs, request, appConfig.Storage.Dir, cwd, getwdOk))

\* GET /api/storage/*
HandleStorageWithPath ==
    /\ pc = "idle"
    /\ \E request \in URLRequests :
         Answer(request,
                handleStorageWithPath(fs, request, appConfig.Storage.Dir, cwd,
                                      getwdOk))

\* The response is sent and the request is over; nothing of it is kept.
Respond ==
    /\ pc = "done"
    /\ pc' = "idle"
    /\ req' = NoReq
    /\ res' = NoRes
    /\ resp' = NoResp
    /\ trace' = <<>>
    /\ UNCHANGED <<configFile, appConfig, cwd, getwdOk, fs, writes, goroutines,
                   notified, saved>>

Next == Main \/ HandleStorage \/ HandleStorageWithPath \/ Respond

Spec == Init /\ [][Next]_vars

----------------------------------------------------------------------------
(* The resolver on its own, over every short string.                       *)

Alphabet == { "/", ".", "s", "x" }

StringsUpTo(n) == UNION { [1..k -> Alphabet] : k \in 0..n }

\* Storage directories the resolver is exercised with (never empty:
\* loadConfig replaces an empty storage.dir by "./storage").
DirInputs ==
    StorageDirs \cup
    { <<"/">>, <<".">>, <<".", ".">>, <<".", ".", "/", "s">>,
      <<"/", "s", "/", ".", ".">>, <<"/", "s", "/", "x">>,
      <<"/", "/", "s">>, <<"s", "/", "x", "/">> }

WdInputs == { <<"/">>, <<"/", "s">>, <<"/", "x", "/", "s">> }

PathInputs ==
    StringsUpTo(MaxLen) \cup
    { <<"/", ".", ".", "/", "s", "x">>, <<"/", "s", "/", ".", ".", "/", "x">>,
      <<"/", "s", "/", "x", "/", "s", ".", "x">>, <<"/", "s", ".", ".", "x">> }

ResolveInit ==
    /\ configFile \in { ConfigFile(d, ConfiguredGroups) : d \in DirInputs }
    /\ appConfig = loadConfig(configFile).config
    /\ cwd \in WdInputs
    /\ getwdOk \in BOOLEAN
    /\ fs = InitialFS
    /\ pc = "idle"
    /\ req = NoReq
    /\ res = NoRes
    /\ resp = NoResp
    /\ trace = <<>>
    /\ writes = 0
    /\ goroutines = <<>>
    /\ notified = <<>>
    /\ saved = <<>>

\* One call of validateAndResolvePath.
Resolve ==
    /\ pc = "idle"
    /\ \E path \in PathInputs :
         /\ req' = Request("resolve", "", path, "", TRUE)
         /\ res' = validateAndResolvePath(path, appConfig.Storage.Dir, cwd,
                                          getwdOk)
    /\ trace' = <<"resolve">>
    /\ pc' = "done"
    /\ UNCHANGED <<configFile, appConfig, cwd, getwdOk, fs, resp, writes,
                   goroutines, notified, saved>>

ResolveNext == Resolve \/ Respond

ResolveSpec == ResolveInit /\ [][ResolveNext]_vars

----------------------------------------------------------------------------
(* The messages endpoint on its own.                                       *)

\* Longest "to" list of a request.
MaxTo == 2

\* Recipients of requests: a phone number, one written with spaces, one
\* without the +, a short one, one with letters, a group, a group without
\* members, an unknown name and the empty string.
Recipients ==
    { <<"+", "1", "2", "3", "4", "5", "6", "7", "8", "9", "0">>,
      <<"+", "1", " ", "2", "3", "4", " ", "5", "6", "7", " ", "8", "9", "0", "1">>,
      <<"1", "2", "3", "4", "5", "6", "7", "8", "9", "0">>,
      <<"+", "1", "2", "3">>,
      <<"+", "1", "2", "3", "4", "5", "a", "b", "c", "9", "0">>,
      <<"f", "a", "m">>, <<"w", "r", "k">>, <<"n", "o", "b">>, <<"x">>, <<>> }

ToLists == UNION { [1..k -> Recipients] : k \in 0..MaxTo }

MessageRequest(to, message, bodyOk) ==
    [route |-> "messages", method |-> "POST", to |-> to, message |-> message,
     bodyOk |-> bodyOk]

\* The requests the router hands to handleSendMessages: bodies that do not
\* bind, and bodies with a "to" list (empty when the key is missing) and a
\* message (empty when the key is missing).
MessageRequests ==
    { MessageRequest(<<>>, "", FALSE) }
    \cup { MessageRequest(t[1], t[2], TRUE) : t \in ToLists \X {"", "m"} }

\* The outcomes of n runs of osascript.
ScriptOutcomes(n) == [1..n -> BOOLEAN]

\* The server runs, started without a configuration file or with one that
\* defines groups.
MessagesInit ==
    /\ configFile \in { NoFlag, ConfigFile(<<>>, ConfiguredGroups) }
    /\ appConfig = loadConfig(configFile).config
    /\ cwd = <<"/">>
    /\ getwdOk = TRUE
    /\ fs = InitialFS
    /\ pc = "idle"
    /\ req = NoReq
    /\ res = NoRes
    /\ resp = NoResp
    /\ trace = <<>>
    /\ writes = 0
    /\ goroutines = <<>>
    /\ notified = <<>>
    /\ saved = <<>>

\* POST /api/messages
HandleSendMessages ==
    /\ pc = "idle"
    /\ \E request \in MessageRequests :
         \E scriptOk \in ScriptOutcomes(Len(expandGroups(request.to, appConfig))) :
           LET out == handleSendMessages(request, appConfig, scriptOk)
           IN  /\ req' = request
               /\ resp' = out.resp
               /\ trace' = out.trace
    /\ pc' = "done"
    /\ UNCHANGED <<configFile, appConfig, cwd, getwdOk, fs, res, writes,
                   goroutines, notified, saved>>

MessagesNext == HandleSendMessages \/ Respond

MessagesSpec == MessagesInit /\ [][MessagesNext]_vars

----------------------------------------------------------------------------
(* The JSON storage route with notifications. A handler's step computes    *)
(* the response and starts the goroutine; writing the response to the      *)
(* client is a step of its own, so that the goroutine may run before it,   *)
(* after it, after later requests, or never.                               *)

\* Notification goroutines that may be running at once.
MaxGoroutines == 1

NotifyPaths ==
    { <<>>, <<"/", "f">>, <<"/", "n">>, <<"/", "a">>, <<"/", "f", "/", "n">>,
      <<"/", ".", ".">> }

\* The notify lists of requests: none, an empty one, and a group with a
\* valid and an invalid number.
NotifyLists ==
    { [given |-> FALSE, list |-> <<>>], [given |-> TRUE, list |-> <<>>],
      [given |-> TRUE, list |-> << <<"f", "a", "m">> >>] }

NotifyRequest(method, path, content, n) ==
    [route |-> "notify", method |-> method, path |-> path,
     content |-> content, bodyOk |-> TRUE, notifyGiven |-> n.given,
     notify |-> n.list]

NotifyRequests ==
    { NotifyRequest(t[1], t[2], IF t[1] = "POST" THEN "v" ELSE "", t[3]) :
        t \in {"GET", "POST"} \X NotifyPaths \X NotifyLists }

NotifyInit ==
    /\ configFile = ConfigFile(<<"/", "s">>, ConfiguredGroups)
    /\ appConfig = loadConfig(configFile).config
    /\ cwd = <<"/">>
    /\ getwdOk = TRUE
    /\ fs = InitialFS
    /\ pc = "idle"
    /\ req = NoReq
    /\ res = NoRes
    /\ resp = NoResp
    /\ trace = <<>>
    /\ writes = 0
    /\ goroutines = <<>>
    /\ notified = <<>>
    /\ saved = <<>>

\* GET or POST /api/storage with a notify list: the handler runs up to its
\* return statement.
HandleStorageNotify ==
    /\ pc = "idle"
    /\ \E request \in NotifyRequests :
         LET out == handleStorageNotify(fs, request, appConfig.Storage.Dir,
                                        cwd, getwdOk)
         IN  /\ out.fs # fs => writes < MaxWrites
             /\ Len(goroutines) + Len(out.spawn) <= MaxGoroutines
             /\ req' = request
             /\ res' = out.res
             /\ resp' = out.resp
             /\ trace' = out.trace
             /\ fs' = out.fs
             /\ writes' = IF out.fs # fs THEN writes + 1 ELSE writes
             /\ goroutines' = goroutines \o out.spawn
             /\ saved' = Remember(saved, request, out)
    /\ pc' = "writing"
    /\ UNCHANGED <<configFile, appConfig, cwd, getwdOk, notified>>

\* return c.JSON(status, response): the response goes to the client.
WriteResponse ==
    /\ pc = "writing"
    /\ pc' = "done"
    /\ UNCHANGED <<configFile, appConfig, cwd, getwdOk, fs, req, res, resp,
                   trace, writes, goroutines, notified, saved>>

\* The goroutines but the i-th.
Remove(seq, i) == SubSeq(seq, 1, i - 1) \o SubSeq(seq, i + 1, Len(seq))

\* A plausible slip: a notification that could not be sent to everyone
\* turns the response that is still to be written into a failure.
SendStorageNotificationPropagating ==
    /\ goroutines # <<>>
    /\ \E i \in 1..Len(goroutines) :
         \E scriptOk \in ScriptOutcomes(Len(expandGroups(goroutines[i].notify,
                                                         appConfig))) :
           LET results == sendStorageNotification(goroutines[i], appConfig,
                                                  scriptOk)
           IN  /\ notified' = results
               /\ resp' = (IF pc = "writing"
                              /\ \E k \in 1..Len(results) : ~results[k].success
                           THEN JSONResponse(500, FALSE, "", MsgInternal)
                           ELSE resp)
               /\ goroutines' = Remove(goroutines, i)
    /\ UNCHANGED <<configFile, appConfig, cwd, getwdOk, fs, pc, req, res,
                   trace, writes, saved>>

\* One of the goroutines runs sendStorageNotification to its end; every
\* send of it succeeds or fails, and the results are only logged.
SendStorageNotification ==
    /\ goroutines # <<>>
    /\ \E i \in 1..Len(goroutines) :
         \E scriptOk \in ScriptOutcomes(Len(expandGroups(goroutines[i].notify,
                                                         appConfig))) :
           /\ notified' = sendStorageNotification(goroutines[i], appConfig,
                                                  scriptOk)
           /\ goroutines' = Remove(goroutines, i)
    /\ UNCHANGED <<configFile, appConfig, cwd, getwdOk, fs, pc, req, res, resp,
                   trace, writes, saved>>

NotifyNext ==
    \/ HandleStorageNotify
    \/ HandleStorageWithPath
    \/ WriteResponse
    \/ SendStorageNotification
    \/ Respond

NotifySpec == NotifyInit /\ [][NotifyNext]_vars

----------------------------------------------------------------------------
(* Saves followed by reads: both storage routes on a few paths, some of    *)
(* them spellings of one another, with contents that fit the disk and one  *)
(* that does not.                                                          *)

\* Requests of one behaviour that change the filesystem.
MaxSaves == 2

RoundTripPaths ==
    { <<"/", "f">>, <<"/", "a", "/", "f">>, <<"/", "a", "/", "/", "f">>,
      <<"/", "n">>, <<"/", "n", "/", "n">> }

RoundTripRequests ==
    { Request("json", "GET", p, "", TRUE) : p \in RoundTripPaths }
    \cup { Request("json", "POST", t[1], t[2], TRUE) :
             t \in RoundTripPaths \X {"", "v", TooBig} }

RoundTripURLRequests ==
    { Request("url", "GET", TrimPrefix(p, <<Sep>>), "", TRUE) :
        p \in RoundTripPaths }

RoundTripInit ==
    /\ configFile = ConfigFile(<<"/", "s">>, ConfiguredGroups)
    /\ appConfig = loadConfig(configFile).config
    /\ cwd = <<"/">>
    /\ getwdOk = TRUE
    /\ fs = InitialFS
    /\ pc = "idle"
    /\ req = NoReq
    /\ res = NoRes
    /\ resp = NoResp
    /\ trace = <<>>
    /\ writes = 0
    /\ goroutines = <<>>
    /\ notified = <<>>
    /\ saved = <<>>

\* GET or POST /api/storage
SaveOrRead ==
    /\ pc = "idle"
    /\ \E request \in RoundTripRequests :
         AnswerWithin(request,
                      handleStorage(fs, request, appConfig.Storage.Dir, cwd,
                                    getwdOk),
                      MaxSaves)

\* GET /api/storage/*
ReadWithPath ==
    /\ pc = "idle"
    /\ \E request \in RoundTripURLRequests :
         AnswerWithin(request,
                      handleStorageWithPath(fs, request, appConfig.Storage.Dir,
                                            cwd, getwdOk),
                      MaxSaves)

RoundTripNext == SaveOrRead \/ ReadWithPath \/ Respond

RoundTripSpec == RoundTripInit /\ [][RoundTripNext]_vars

----------------------------------------------------------------------------
(* The uptime endpoint and formatUptimeResponse on their own.              *)

\* Most days of an uptime.
MaxDays == 2

UptimeHours == { 0, 1, 3, 23 }
UptimeMinutes == { 0, 1, 5, 45, 59 }

\* MM of H:MM
Pad2(n) == IF n < 10 THEN <<"0">> \o Itoa(n) ELSE Itoa(n)

\* The uptime as the uptime command prints it, between "up" and the
\* number of users: "3:45", "2 days, 3:45", "1 day, 5 mins", "5 mins" or
\* "45 secs".
UptimeText(form, days, hours, minutes) ==
    LET dayText == Itoa(days) \o <<" ", "d", "a", "y">>
                   \o (IF days = 1 THEN <<>> ELSE <<"s">>) \o <<",", " ">>
        clock == Itoa(hours) \o <<":">> \o Pad2(minutes)
        mins == Itoa(minutes) \o <<" ", "m", "i", "n">>
                \o (IF minutes = 1 THEN <<>> ELSE <<"s">>)
    IN  CASE form = "clock" -> clock
          [] form = "days clock" -> dayText \o <<" ">> \o clock
          [] form = "days mins" -> dayText \o mins
          [] form = "mins" -> mins
          [] form = "secs" -> Itoa(minutes) \o <<" ", "s", "e", "c", "s">>

\* One line of output of the uptime command.
UptimeOutput(form, days, hours, minutes) ==
    <<"1", "0", ":", "0", "0", " ", " ", "u", "p", " ">>
    \o UptimeText(form, days, hours, minutes)
    \o <<",", " ", "2", " ", "u", "s", "e", "r", "s", ",", " ", "l", "o", "a",
         "d", " ", "1", ".", "2", "3", "\n">>

Command(form, days, hours, minutes) ==
    [route |-> "uptime", method |-> "GET", ok |-> TRUE, form |-> form,
     days |-> days, hours |-> hours, minutes |-> minutes,
     output |-> UptimeOutput(form, days, hours, minutes)]

\* What running uptime gives: a failure to run it, a line without the
\* word the parser looks for, and lines for uptimes of at least a second.
Commands ==
    { [route |-> "uptime", method |-> "GET", ok |-> FALSE, form |-> "none",
       days |-> 0, hours |-> 0, minutes |-> 0, output |-> <<>>],
      [route |-> "uptime", method |-> "GET", ok |-> TRUE, form |-> "none",
       days |-> 0, hours |-> 0, minutes |-> 0,
       output |-> <<"1", "0", ":", "0", "0", "\n">>] }
    \cup { Command("clock", 0, t[1], t[2]) :
             t \in { u \in UptimeHours \X UptimeMinutes : u[1] + u[2] > 0 } }
    \cup { Command("days clock", t[1], t[2], t[3]) :
             t \in (1..MaxDays) \X UptimeHours \X UptimeMinutes }
    \cup { Command("days mins", t[1], 0, t[2]) :
             t \in (1..MaxDays) \X (UptimeMinutes \ {0}) }
    \cup { Command("mins", 0, 0, m) : m \in UptimeMinutes \ {0} }
    \cup { Command("secs", 0, 0, m) : m \in UptimeMinutes \ {0} }

\* Whole numbers of seconds formatUptimeResponse is applied to.
SecondsInputs ==
    { t[1] * 86400 + t[2] * 3600 + t[3] * 60 + t[4] :
        t \in (0..MaxDays) \X {0, 1, 2, 23} \X {0, 1, 2, 59} \X {0, 1, 59} }

UptimeInit ==
    /\ configFile = NoFlag
    /\ appConfig = loadConfig(configFile).config
    /\ cwd = <<"/">>
    /\ getwdOk = TRUE
    /\ fs = InitialFS
    /\ pc = "idle"
    /\ req = NoReq
    /\ res = NoRes
    /\ resp = NoResp
    /\ trace = <<>>
    /\ writes = 0
    /\ goroutines = <<>>
    /\ notified = <<>>
    /\ saved = <<>>

\* GET /api/uptime
HandleGetUptime ==
    /\ pc = "idle"
    /\ \E command \in Commands :
         /\ req' = command
         /\ resp' = handleGetUptime(command)
    /\ pc' = "done"
    /\ UNCHANGED <<configFile, appConfig, cwd, getwdOk, fs, res, trace, writes,
                   goroutines, notified, saved>>

\* One call of formatUptimeResponse.
FormatUptimeResponse ==
    /\ pc = "idle"
    /\ \E seconds \in SecondsInputs :
         /\ req' = [route |-> "format", method |-> "", seconds |-> seconds]
         /\ resp' = formatUptimeResponse(seconds)
    /\ pc' = "done"
    /\ UNCHANGED <<configFile, appConfig, cwd, getwdOk, fs, res, trace, writes,
                   goroutines, notified, saved>>

UptimeNext == HandleGetUptime \/ FormatUptimeResponse \/ Respond

UptimeSpec == UptimeInit /\ [][UptimeNext]_vars

----------------------------------------------------------------------------
(* Properties of the resolver, checked under ResolveSpec.                  *)

\* The canonical storage root: filepath.Abs of the configured directory.
CanonicalRoot == Abs(appConfig.Storage.Dir, cwd, getwdOk)

\* p is root itself, or root followed by a separator and more.
IsDescendant(p, root) ==
    \/ p = root
    \/ HasPrefix(p, IF root = RootPath THEN root ELSE root \o <<Sep>>)

\* C1: whenever validateAndResolvePath succeeds, the path it returns is the
\* canonical storage root or the root followed by a separator and further
\* elements; it is never a sibling that only shares the root as a prefix.
C1_ResolvedPathIsDescendant ==
    (pc = "done" /\ res.kind = "ok") =>
        /\ CanonicalRoot.ok
        /\ IsDescendant(res.path, CanonicalRoot.path)

\* C1 witness: a relative storage directory and a logical path resolved to
\* a path strictly below the root.
C1_Witness ==
    /\ pc = "done"
    /\ res.kind = "ok"
    /\ ~IsAbs(appConfig.Storage.Dir)
    /\ res.path # CanonicalRoot.path
    /\ Len(Elements(req.path)) = 2

\* C2: every logical path that contains ".." anywhere is rejected by
\* validateAndResolvePath as InvalidPath (400, "invalid path: ..."),
\* whatever the storage directory, the working directory and os.Getwd do.
C2_DotDotIsInvalidPath ==
    (pc = "done" /\ req.route = "resolve" /\ Contains(req.path, DotDot)) =>
        /\ res.kind = "InvalidPath"
        /\ res.code = 400
        /\ res.message = MsgInvalidPath

\* C2 witness: ".." inside a file name, "/s..x", under a relative storage
\* directory whose working directory cannot be read.
C2_Witness ==
    /\ pc = "done"
    /\ req.path = <<"/", "s", ".", ".", "x">>
    /\ ~IsAbs(appConfig.Storage.Dir)
    /\ ~getwdOk
    /\ res.kind = "InvalidPath"

\* The root followed by the path's elements ("." and empty ones left out),
\* each preceded by exactly one separator.
ElementsBelow(root, path) ==
    LET elems == SelectSeq(Elements(path), LAMBDA e : e # <<Dot>>)
    IN  IF elems = <<>> THEN root
        ELSE (IF root = RootPath THEN root ELSE root \o <<Sep>>) \o JoinSep(elems)

\* C5: whenever validateAndResolvePath succeeds, its result is the join of
\* the canonical storage root and the logical path, with no doubled or
\* missing separator, and has the canonical root as a prefix.
C5_ResolvedPathIsJoin ==
    (pc = "done" /\ res.kind = "ok") =>
        /\ res.path = ElementsBelow(CanonicalRoot.path, req.path)
        /\ HasPrefix(res.path, CanonicalRoot.path)
        /\ ~Contains(res.path, <<Sep, Sep>>)

\* C5 witness: root /s and logical path /x/s give exactly /s/x/s.
C5_Witness ==
    /\ pc = "done"
    /\ appConfig.Storage.Dir = <<"/", "s">>
    /\ req.path = <<"/", "x", "/", "s">>
    /\ res.kind = "ok"
    /\ res.path = <<"/", "s", "/", "x", "/", "s">>

----------------------------------------------------------------------------
(* Properties of the request handlers, checked under Spec.                 *)

\* The logical path a request names: req.Path on the JSON route, the URL
\* parameter with its leading separator reinstated on the URL route.
LogicalPath(request) ==
    IF request.route = "url"
    THEN <<Sep>> \o TrimPrefix(request.path, <<Sep>>)
    ELSE request.path

IsFSOp(op) == op \in {"stat", "read", "mkdirall", "write"}

\* C3 as stated: every JSON-route path that does not start with "/" is
\* answered with the InvalidPath client error.
C3_RelativePathIsInvalidPath ==
    (pc = "done" /\ req.route = "json" /\ req.bodyOk
        /\ ~HasPrefix(req.path, <<Sep>>)) =>
        /\ res.kind = "InvalidPath"
        /\ resp = JSONResponse(400, FALSE, "", MsgInvalidPath)

\* C3 amended: on the JSON route every non-empty path that does not start
\* with "/" is handed to the resolver as it is (never prefixed with "/"),
\* rejected as InvalidPath and answered 400 "invalid path: ..." without any
\* file operation; the empty path is answered 400 "path is required" and
\* the resolver is not called.
C3_NonEmptyRelativePathIsInvalidPath ==
    (pc = "done" /\ req.route = "json" /\ req.bodyOk
        /\ ~HasPrefix(req.path, <<Sep>>)) =>
        IF req.path = <<>>
        THEN /\ res = NoRes
             /\ resp = JSONResponse(400, FALSE, "", MsgPathRequired)
             /\ trace = <<>>
        ELSE /\ res.kind = "InvalidPath"
             /\ resp = JSONResponse(400, FALSE, "", MsgInvalidPath)
             /\ trace = <<"resolve">>

\* C3 witness: POST {"path": "a/f"} where /s/a/f exists, answered 400
\* "invalid path: ...".
C3_Witness ==
    /\ pc = "done"
    /\ req.route = "json"
    /\ req.method = "POST"
    /\ req.path = <<"a", "/", "f">>
    /\ Lookup(fs, Join(CanonicalRoot.path, <<Sep>> \o req.path)).err = "ok"
    /\ resp.error = MsgInvalidPath

\* C4: a request answered with success touches no file outside the storage
\* root: the file its resolved path leads to, symbolic links followed, lies
\* under the canonical root (a path through a link leaving the root is
\* rejected as OutsideRoot instead).
C4_NoAccessOutsideRoot ==
    (pc = "done" /\ res.kind = "ok" /\ resp.status = 200) =>
        IsDescendant(Lookup(fs, res.path).phys, CanonicalRoot.path)

\* C6: the logical path "/" is answered 400 "path is required" on both
\* routes, without the resolver being called or any file operation.
C6_RootPathIsRequired ==
    (pc = "done" /\ req.bodyOk /\ LogicalPath(req) = <<Sep>>) =>
        /\ resp = JSONResponse(400, FALSE, "", MsgPathRequired)
        /\ res = NoRes
        /\ trace = <<>>

\* C7: every request handed to processStorageRequest or
\* processStorageRequestRaw (all but those answered "invalid request body"
\* or "path is required") calls the resolver exactly once and before any
\* file operation, file operations happen only after it succeeded, and a
\* request the resolver (or the handler before it) rejects leaves the whole
\* filesystem as it was.
C7_RejectedRequestTouchesNothing ==
    [][ pc' = "done" =>
          /\ \A i \in 1..Len(trace') : (trace'[i] = "resolve") <=> (i = 1)
          /\ (res'.kind = "none") <=> (trace' = <<>>)
          /\ (res'.kind = "none") <=>
                 \/ ~req'.bodyOk
                 \/ req'.path = <<>>
                 \/ (req'.route = "url" /\ LogicalPath(req') = <<Sep>>)
          /\ (res'.kind # "ok") => (\A i \in 1..Len(trace') : ~IsFSOp(trace'[i]))
          /\ (res'.kind # "ok") => (fs' = fs)
          /\ (res'.kind = "ok") => (\E i \in 1..Len(trace') : IsFSOp(trace'[i]))
      ]_vars

\* C7 witness: POST of "/../e/p", rejected as InvalidPath with the
\* resolver as its only operation.
C7_Witness ==
    /\ pc = "done"
    /\ req.method = "POST"
    /\ req.path = <<"/", ".", ".", "/", "e", "/", "p">>
    /\ res.kind = "InvalidPath"
    /\ trace = <<"resolve">>
    /\ fs = InitialFS

RejectionKinds == {"InvalidPath", "OutsideRoot", "ResolutionFailure"}

\* C8: when the resolver rejects, the response carries the resolver's own
\* status code and message on both routes, and status and message together
\* tell the three rejection kinds apart.
C8_RejectionForwardedUnchanged ==
    (pc = "done" /\ res.kind \in RejectionKinds) =>
        /\ resp.status = res.code
        /\ resp.error = res.message
        /\ ~resp.success
        /\ resp.body = (IF req.route = "json" THEN "StorageResponse" ELSE "HTTPError")
        /\ (res.kind = "InvalidPath") <=>
               (resp.status = 400 /\ resp.error = MsgInvalidPath)
        /\ (res.kind = "OutsideRoot") <=>
               (resp.status = 400 /\ resp.error = MsgOutside)
        /\ (res.kind = "ResolutionFailure") <=>
               (resp.status = 500 /\ resp.error = MsgInternal)

\* C8 witness: a JSON request failing with ResolutionFailure (relative
\* storage directory, os.Getwd failing), answered 500.
C8_Witness ==
    /\ pc = "done"
    /\ req.route = "json"
    /\ res.kind = "ResolutionFailure"
    /\ resp.status = 500

\* The storage root exists and is a directory.
RootExists ==
    /\ CanonicalRoot.ok
    /\ Stat(fs, CanonicalRoot.path).isDir

\* C9: a read of a validated path at which no file exists, under an
\* existing storage root, is answered 404 "file not found", also when an
\* intermediate element of the path is missing or is a regular file.
C9_MissingFileIsNotFound ==
    (pc = "done" /\ req.method = "GET" /\ res.kind = "ok" /\ RootExists
        /\ Lookup(fs, res.path).err # "ok") =>
        /\ resp.status = 404
        /\ resp.error = MsgNotFound

\* There is something at path that cannot be read as a file: a directory,
\* or a file without read permission.
ExistsUnreadable(f, path) ==
    LET w == Lookup(f, path)
    IN  /\ w.err = "ok"
        /\ (f[w.phys].kind = "dir" \/ f[w.phys].mode = "none")

\* C10: a read of a validated path at which there is a directory or a file
\* without read permission is answered 500 "failed to read file" on both
\* read routes.
C10_UnreadableIsInternalError ==
    (pc = "done" /\ req.method = "GET" /\ res.kind = "ok"
        /\ ExistsUnreadable(fs, res.path)) =>
        /\ resp.status = 500
        /\ resp.error = MsgReadFailed
        /\ ~resp.success

\* C10 witness: the unreadable file /u read on the JSON route, answered 500.
C10_Witness ==
    /\ pc = "done"
    /\ req.route = "json"
    /\ req.method = "GET"
    /\ req.path = <<"/", "u">>
    /\ res.kind = "ok"
    /\ Lookup(fs, res.path).err = "ok"
    /\ fs[Lookup(fs, res.path).phys].mode = "none"
    /\ resp.status = 500

----------------------------------------------------------------------------
(* Properties of writing and of error reporting, checked under Spec.       *)

\* Nothing but missing directories and a missing file separates path from
\* existence: the walk ends, through plain directories only, at an element
\* of path that does not exist.
OnlyMissing(f, path) ==
    LET w == Lookup(f, path)
    IN  /\ w.err = "ENOENT"
        /\ HasPrefix(path, w.phys)

\* The lexical ancestors of a clean absolute path, the root left out.
Ancestors(path) ==
    LET elems == Elements(path)
    IN  { <<Sep>> \o JoinSep(SubSeq(elems, 1, k)) : k \in 1..(Len(elems) - 1) }

\* C11: a POST to a validated path is answered either 200 with
\* success=true or 500 "failed to save file"; it succeeds whenever only
\* directories and the file itself are missing, and after a success every
\* parent directory exists and the file holds exactly the request content.
C11_WriteCreatesParentsAndFile ==
    [][ (pc' = "done" /\ req'.route = "json" /\ req'.method = "POST"
            /\ res'.kind = "ok") =>
          /\ resp' \in { JSONResponse(200, TRUE, MsgSaved, ""),
                         JSONResponse(500, FALSE, "", MsgSaveFailed) }
          /\ OnlyMissing(fs, res'.path) => resp'.status = 200
          /\ resp'.status = 200 =>
                /\ ReadFile(fs', res'.path) = [err |-> "ok", content |-> req'.content]
                /\ \A d \in Ancestors(res'.path) : Stat(fs', d).isDir
          /\ resp'.status = 500 =>
                \/ MkdirAll(fs, Dir(res'.path)).err # "ok"
                \/ WriteFile(MkdirAll(fs, Dir(res'.path)).fs, res'.path,
                             req'.content).err # "ok"
      ]_vars

\* C11 witness: POST of /n/n/n with content "v" where neither /s/n nor
\* /s/n/n exists, answered 200, after which both are directories and
\* /s/n/n/n holds "v".
C11_Witness ==
    /\ pc = "done"
    /\ req.method = "POST"
    /\ req.path = <<"/", "n", "/", "n", "/", "n">>
    /\ resp = JSONResponse(200, TRUE, MsgSaved, "")
    /\ res.path = <<"/", "s", "/", "n", "/", "n", "/", "n">>
    /\ res.path \in DOMAIN fs
    /\ fs[res.path] = FileNode("v", "rw")
    /\ fs[<<"/", "s", "/", "n">>] = DirNode
    /\ fs[<<"/", "s", "/", "n", "/", "n">>] = DirNode

\* The error messages of the storage handlers.
GenericMessages ==
    { MsgInvalidPath, MsgOutside, MsgInternal, MsgPathRequired, MsgNotFound,
      MsgReadFailed, MsgSaveFailed, MsgMethodNotAllowed, MsgMethodNotAllowedURL,
      "invalid request body" }

\* The errors the operating system reports for a path.
Errnos ==
    { "ENOENT", "ENOTDIR", "EISDIR", "EACCES", "EEXIST", "ELOOP", "ENOSPC" }

\* C12: the error message of a storage response is one of the handlers'
\* fixed messages and a failed response carries no content; whatever error
\* the operating system reported, a failed read is answered with the one
\* response of its route and a failed write with the one response
\* 500 "failed to save file".
C12_NoOSErrorTextInResponse ==
    (pc = "done" /\ req.route \in {"json", "url"}) =>
        /\ resp.error \in GenericMessages \cup {""}
        /\ resp.error \notin Errnos
        /\ ~resp.success => (resp.content = "" /\ resp.error \in GenericMessages)
        /\ (req.method = "GET" /\ res.kind = "ok"
               /\ ReadFile(fs, res.path).err \notin {"ok", "ENOENT"}) =>
              resp = (IF req.route = "json"
                      THEN JSONResponse(500, FALSE, "", MsgReadFailed)
                      ELSE HTTPError(500, MsgReadFailed))
        /\ (req.method = "POST" /\ res.kind = "ok" /\ resp.status # 200) =>
              resp = JSONResponse(500, FALSE, "", MsgSaveFailed)

\* C12 witness: a read on the URL route failing with EACCES, answered
\* 500 "failed to read file".
C12_Witness ==
    /\ pc = "done"
    /\ req.route = "url"
    /\ res.kind = "ok"
    /\ ReadFile(fs, res.path).err = "EACCES"
    /\ resp = HTTPError(500, MsgReadFailed)

----------------------------------------------------------------------------
(* Properties of startup and configuration, checked under Spec.            *)

\* C15: appConfig is written once, by main before the server accepts
\* requests, and never again: once assigned it keeps its value, only the
\* step of main out of the boot state changes it, and whenever the server
\* accepts requests or a handler has run it is non-nil and equal to what
\* loadConfig returned for the configuration the process was started with.
C15_ConfigFixedAtStartup ==
    [][ /\ appConfig # NoConfig => appConfig' = appConfig
        /\ appConfig' # appConfig => (pc = "boot" /\ appConfig = NoConfig)
        /\ pc' \in {"idle", "done"} =>
              /\ appConfig' # NoConfig
              /\ appConfig' = loadConfig(configFile').config
        /\ pc' = "exit" => loadConfig(configFile').err
      ]_vars

\* C15 witness: a storage handler has run and resolved a path under the
\* directory the configuration file named at startup.
C15_Witness ==
    /\ pc = "done"
    /\ req.route = "json"
    /\ res.kind = "ok"
    /\ configFile = ConfigFile(<<"/", "s">>, ConfiguredGroups)
    /\ appConfig.Storage.Dir = <<"/", "s">>
    /\ HasPrefix(res.path, <<"/", "s", "/">>)

\* C16: after a successful load Storage.Dir is "./storage" when no
\* configuration file is named and when the file's storage.dir is absent or
\* empty, is the configured value otherwise, and is never empty.
C16_StorageDirDefault ==
    pc \in {"idle", "done"} =>
        /\ appConfig.Storage.Dir # <<>>
        /\ appConfig.Storage.Dir =
              (IF configFile.path = "" \/ configFile.dir = <<>>
               THEN DefaultStorageDir ELSE configFile.dir)

\* C16 witness: the server runs with a configuration file that has no
\* storage.dir, on the default directory.
C16_Witness ==
    /\ pc = "idle"
    /\ configFile.path # ""
    /\ configFile.dir = <<>>
    /\ appConfig.Storage.Dir = DefaultStorageDir

----------------------------------------------------------------------------
(* Properties of the messages endpoint, checked under MessagesSpec.        *)

\* C19: a POST /api/messages whose body does not bind, whose "to" list is
\* empty or missing, or whose message is empty is answered 400, and neither
\* validatePhoneNumber nor osascript is run for it.
C19_MalformedMessageRequestSendsNothing ==
    (pc = "done" /\ req.route = "messages"
        /\ (~req.bodyOk \/ req.to = <<>> \/ req.message = "")) =>
        /\ resp.status = 400
        /\ resp.body = "map"
        /\ trace = <<>>

\* C19 witness: a request with a valid recipient and an empty message,
\* answered 400 "Message content is required".
C19_Witness ==
    /\ pc = "done"
    /\ req.route = "messages"
    /\ req.bodyOk
    /\ req.to = << <<"+", "1", "2", "3", "4", "5", "6", "7", "8", "9", "0">> >>
    /\ req.message = ""
    /\ resp = BadRequest("Message content is required", "")
    /\ trace = <<>>

\* C20: a POST /api/messages with a non-empty "to" list and a non-empty
\* message is answered 200 with one result per expanded recipient, in
\* order and naming it, whether or not validation or sending failed for
\* any of them; a result is a success exactly when it has no error.
C20_OneResultPerExpandedRecipient ==
    (pc = "done" /\ req.route = "messages" /\ req.bodyOk /\ req.to # <<>>
        /\ req.message # "") =>
        LET expanded == expandGroups(req.to, appConfig)
        IN  /\ resp.status = 200
            /\ resp.body = "MessageResponse"
            /\ Len(resp.results) = Len(expanded)
            /\ \A i \in 1..Len(expanded) :
                 /\ resp.results[i].recipient = expanded[i]
                 /\ resp.results[i].success <=> (resp.results[i].error = NoError)
            /\ Len(SelectSeq(trace, LAMBDA op : op = "validatePhoneNumber"))
                 = Len(expanded)

\* C20 witness: a group of a valid and an invalid number followed by a
\* valid number; the group's second member fails validation, the first
\* send fails, and the last recipient is still sent to.
C20_Witness ==
    /\ pc = "done"
    /\ req.route = "messages"
    /\ req.to = << <<"f", "a", "m">>,
                   <<"+", "1", "2", "3", "4", "5", "6", "7", "8", "9", "0">> >>
    /\ resp.status = 200
    /\ Len(resp.results) = 3
    /\ resp.results[1].error = ErrAppleScript
    /\ resp.results[2].error = ErrTooShort
    /\ resp.results[3].success

----------------------------------------------------------------------------
(* Properties of the storage notifications, checked under NotifySpec.      *)

\* The request without its notify list, as the JSON route of Spec takes it.
WithoutNotify(request) ==
    Request("json", request.method, request.path, request.content,
            request.bodyOk)

\* C13: a storage request with a notify list gets the response, and has
\* the effect on the filesystem, of the same request without the list; the
\* handler reaches its return with the goroutine started and not waited
\* for; a step of the goroutine, whatever its sends did, changes neither
\* the response nor the request's progress nor the filesystem, and the
\* response written is the one the handler computed.
C13_NotificationIsFireAndForget ==
    [][ /\ (pc = "idle" /\ pc' = "writing" /\ req'.notify # <<>>) =>
              LET plain == handleStorage(fs, WithoutNotify(req'),
                                         appConfig.Storage.Dir, cwd, getwdOk)
              IN  /\ resp' = plain.resp
                  /\ fs' = plain.fs
                  /\ (res'.kind = "ok") =>
                        /\ Len(goroutines') = Len(goroutines) + 1
                        /\ goroutines'[Len(goroutines')].notify = req'.notify
        /\ Len(goroutines') < Len(goroutines) =>
              /\ pc' = pc
              /\ resp' = resp
              /\ fs' = fs
              /\ req' = req
        /\ (pc = "writing" /\ pc' = "done") => resp' = resp
      ]_vars

\* C13 witness: a save with a notify list answered 200 although the
\* notification has run and failed for
\* every recipient.
C13_Witness ==
    /\ pc = "done"
    /\ req.route = "notify"
    /\ req.method = "POST"
    /\ req.notify # <<>>
    /\ resp = JSONResponse(200, TRUE, MsgSaved, "")
    /\ goroutines = <<>>
    /\ notified # <<>>
    /\ \A k \in 1..Len(notified) : ~notified[k].success

----------------------------------------------------------------------------
(* Properties of the response formats of the two read routes, checked      *)
(* under Spec.                                                             *)

\* C17: on the URL route the parameter with and without its leading
\* separator is answered alike, a success is the raw content of the file,
\* and every other answer is an HTTP error, not a StorageResponse.
C17_URLRouteReportsProtocolErrors ==
    (pc = "done" /\ req.route = "url") =>
        /\ resp = handleStorageWithPath(
                      fs, [req EXCEPT !.path = <<Sep>> \o TrimPrefix(req.path, <<Sep>>)],
                      appConfig.Storage.Dir, cwd, getwdOk).resp
        /\ resp.status = 200 =>
              /\ resp.body = "text"
              /\ resp.content = ReadFile(fs, res.path).content
        /\ resp.status # 200 => resp.body = "HTTPError"

\* C18: on the JSON route every answer to a read that carries a path is a
\* StorageResponse: a success holds the content of the file, and a
\* rejection, a missing file and a failure have success=false, an error
\* message and the status of their kind.
C18_JSONRouteReportsStorageResponses ==
    (pc = "done" /\ req.route = "json" /\ req.method = "GET" /\ req.bodyOk
        /\ req.path # <<>>) =>
        /\ resp.body = "StorageResponse"
        /\ resp.status = 200 =>
              /\ resp.success
              /\ resp.content = ReadFile(fs, res.path).content
        /\ resp.status # 200 =>
              /\ ~resp.success
              /\ resp.error # ""
              /\ resp.status \in {400, 404, 500}

----------------------------------------------------------------------------
(* Properties of recipients and groups, checked under MessagesSpec.        *)

\* The recipient without its spaces is "+" followed by at least ten
\* characters, all of them digits.
IsPhoneNumber(recipient) ==
    LET shown == SelectSeq(recipient, LAMBDA ch : ch # " ")
    IN  /\ Len(shown) >= 11
        /\ shown[1] = "+"
        /\ \A i \in 2..Len(shown) : shown[i] \in Digits

ValidationErrors == { ErrNoPlus, ErrNotDigits, ErrTooShort }

RECURSIVE Expansion(_, _)
Expansion(to, groups) ==
    IF to = <<>> THEN <<>>
    ELSE (IF Head(to) \in DOMAIN groups
          THEN [i \in 1..Len(groups[Head(to)]) |->
                  [recipient |-> groups[Head(to)][i], member |-> TRUE]]
          ELSE << [recipient |-> Head(to), member |-> FALSE] >>)
         \o Expansion(Tail(to), groups)

\* An e-mail address, as the documented configuration has them.
IsEmail(recipient) == \E i \in 1..Len(recipient) : recipient[i] = "@"

\* C21: the results name, in order, the "to" list with every configured
\* group replaced in place by its members and every other entry kept, and
\* the message is sent to every member of a group that is a phone number
\* or an e-mail address: osascript is run for it.
C21_GroupMembersAreSentTo ==
    (pc = "done" /\ req.route = "messages" /\ resp.status = 200) =>
        LET expected == Expansion(req.to, appConfig.Messages.Groups)
        IN  /\ Len(resp.results) = Len(expected)
            /\ \A i \in 1..Len(expected) :
                 /\ resp.results[i].recipient = expected[i].recipient
                 /\ (expected[i].member
                        /\ (IsPhoneNumber(expected[i].recipient)
                              \/ IsEmail(expected[i].recipient))) =>
                       resp.results[i].error \in {NoError, ErrAppleScript}

----------------------------------------------------------------------------
(* Properties of the notify list and of the dispatch of notifications,     *)
(* checked under NotifySpec.                                               *)

\* C26: a JSON storage request whose notify list is present and empty is
\* answered 400 without a call of the resolver or of the filesystem and
\* without a goroutine started; a request without a notify list gets the
\* response and has the effect of the request as storage.go handles it.
C26_EmptyNotifyIsRejected ==
    [][ (pc = "idle" /\ pc' = "writing") =>
          /\ (req'.notifyGiven /\ req'.notify = <<>>) =>
                /\ resp'.status = 400
                /\ ~resp'.success
                /\ res' = NoRes
                /\ trace' = <<>>
                /\ fs' = fs
                /\ goroutines' = goroutines
          /\ ~req'.notifyGiven =>
                LET plain == handleStorage(fs, WithoutNotify(req'),
                                           appConfig.Storage.Dir, cwd, getwdOk)
                IN  /\ resp' = plain.resp
                    /\ fs' = plain.fs
                    /\ trace' = plain.trace
                    /\ goroutines' = goroutines
      ]_vars

\* C26 witness: a save to a new path with an empty notify list, answered
\* 400 with the message about the notify field; the file is not made.
C26_Witness ==
    /\ pc = "done"
    /\ req.route = "notify"
    /\ req.method = "POST"
    /\ req.path = <<"/", "n">>
    /\ req.notifyGiven
    /\ req.notify = <<>>
    /\ resp = JSONResponse(400, FALSE, "", MsgNotifyEmpty)
    /\ <<"/", "s", "/", "n">> \notin DOMAIN fs

\* C27: a JSON storage request with a non-empty notify list whose path the
\* resolver accepts starts exactly one goroutine, for the request's list,
\* operation and resolved path, with success true exactly when the response
\* is the 200 success; a request the resolver rejects and a request on the
\* URL route start none.
C27_OneNotificationPerResolvedRequest ==
    [][ (pc = "idle" /\ pc' \in {"writing", "done"}) =>
          /\ (req'.route = "notify" /\ req'.notify # <<>> /\ res'.kind = "ok") =>
                /\ Len(goroutines') = Len(goroutines) + 1
                /\ SubSeq(goroutines', 1, Len(goroutines)) = goroutines
                /\ LET task == goroutines'[Len(goroutines')]
                   IN  /\ task.notify = req'.notify
                       /\ task.operation = req'.method
                       /\ task.filePath = res'.path
                       /\ task.success <=> (resp'.status = 200 /\ resp'.success)
          /\ (req'.route = "notify" /\ res'.kind # "ok") =>
                goroutines' = goroutines
          /\ req'.route = "url" => goroutines' = goroutines
      ]_vars

\* C27 witness: a read of a missing file with a notify list, answered 404,
\* with the one goroutine of the failure started.
C27_Witness ==
    /\ pc = "writing"
    /\ req.route = "notify"
    /\ req.method = "GET"
    /\ req.notify # <<>>
    /\ resp.status = 404
    /\ Len(goroutines) = 1
    /\ goroutines[1] = Notification(req.notify, "GET", res.path, FALSE, "find file")

----------------------------------------------------------------------------
(* Reachability of the resolver's rejections, checked under ResolveSpec.   *)

\* C29: validateAndResolvePath never answers "path is outside of storage
\* directory": a path that passes isValidPath is, whenever the storage
\* directory can be made absolute, resolved to a path that has the
\* absolute storage directory as a prefix.
C29_OutsideRootIsUnreachable ==
    pc = "done" =>
        /\ res.kind # "OutsideRoot"
        /\ (isValidPath(req.path) /\ CanonicalRoot.ok) =>
              /\ res.kind = "ok"
              /\ HasPrefix(res.path, CanonicalRoot.path)

\* C29 witness: a valid path resolved under a relative storage directory
\* that climbs out of the working directory.
C29_Witness ==
    /\ pc = "done"
    /\ appConfig.Storage.Dir = <<".", ".", "/", "s">>
    /\ cwd = <<"/", "x", "/", "s">>
    /\ isValidPath(req.path)
    /\ Len(req.path) > 1
    /\ res.kind = "ok"
    /\ HasPrefix(res.path, <<"/", "x", "/", "s", "/">>)

----------------------------------------------------------------------------
(* Properties of saves and later reads, checked under RoundTripSpec.       *)

\* C28: a read, on either route, of a logical path that has been saved
\* with success, under any spelling of it, is answered 200 with the
\* content of the last such save.
C28_ReadReturnsLastSave ==
    (pc = "done" /\ req.method = "GET" /\ Spelling(LogicalPath(req)) \in DOMAIN saved) =>
        /\ resp.status = 200
        /\ resp.content = saved[Spelling(LogicalPath(req))]

\* The files of a filesystem and what they hold.
Files(f) == { p \in DOMAIN f : f[p].kind = "file" }

\* C30: a save changes no file but the one its path resolves to, and
\* adds, besides that file, only directories; a save answered with a
\* failure changes no file at all; and a logical path once saved with
\* success is never answered 404 and never becomes a directory.
C30_SaveFrameAndPersistence ==
    [][ /\ (pc' = "done" /\ req'.method = "POST") =>
              /\ \A p \in Files(fs) :
                   (p # Lookup(fs', res'.path).phys \/ resp'.status # 200)
                      => (p \in DOMAIN fs' /\ fs'[p] = fs[p])
              /\ \A p \in DOMAIN fs' \ DOMAIN fs :
                   \/ fs'[p].kind = "dir"
                   \/ (resp'.status = 200 /\ p = Lookup(fs', res'.path).phys)
              /\ \A p \in DOMAIN fs : p \in DOMAIN fs' /\ fs'[p].kind = fs[p].kind
        /\ (pc' = "done" /\ req'.method = "GET"
               /\ Spelling(LogicalPath(req')) \in DOMAIN saved) =>
              /\ resp'.status # 404
              /\ Stat(fs', res'.path) = [err |-> "ok", isDir |-> FALSE]
      ]_vars

----------------------------------------------------------------------------
(* Properties of the uptime endpoint, checked under UptimeSpec.            *)

\* C22: whatever line the uptime command printed, GET /api/uptime is
\* answered 200 with a non-empty uptime, a non-empty formatted uptime and
\* more than zero seconds.
C22_UptimeIsNeverEmpty ==
    (pc = "done" /\ req.route = "uptime" /\ req.ok /\ req.form # "none") =>
        /\ resp.status = 200
        /\ resp.uptime # <<>>
        /\ resp.formatted # <<>>
        /\ resp.uptimeSeconds > 0

\* C23: for a line of the form "up D days, H:MM, N users" the seconds
\* are D*86400 + H*3600 + MM*60.
C23_DaysAndClockBothCount ==
    (pc = "done" /\ req.route = "uptime" /\ req.form = "days clock") =>
        /\ resp.status = 200
        /\ resp.uptimeSeconds
             = req.days * 86400 + req.hours * 3600 + req.minutes * 60

\* The days, hours below 24 and minutes below 60 that make up s seconds
\* but for less than a minute.
Decomposition(s) ==
    CHOOSE t \in (0..(s \div 86400)) \X (0..23) \X (0..59) :
        /\ t[1] * 86400 + t[2] * 3600 + t[3] * 60 <= s
        /\ s < t[1] * 86400 + t[2] * 3600 + t[3] * 60 + 60

\* A value with its unit, in the singular exactly for the value 1.
Counted(value, singular, plural) ==
    Itoa(value) \o <<" ">> \o (IF value = 1 THEN singular ELSE plural)

====
